---- MODULE Spec2Model ----
(***************************************************************************)
(* Nutrilens web client: the payload normalizer of the meal history and    *)
(* of the save response, and the calorie reconciler of the history view.   *)
(*                                                                         *)
(* JavaScript values are records [t, n, s]:                                *)
(*   t = "undefined", "null", "bool", "str", "array", or one of the four   *)
(*       shapes of a JS number: "num" (finite), "inf", "ninf", "nan";      *)
(*   n = for "num" TWICE the numeric value (so 42.5 is n = 85: every       *)
(*       number of the model is a multiple of 1/2, which IEEE doubles hold *)
(*       exactly), for "bool" 1 or 0;                                      *)
(*   s = for "str" the characters, a sequence of one-character strings,    *)
(*       for "array" the elements.                                         *)
(***************************************************************************)
EXTENDS Integers, Sequences, FiniteSets

V(t, n, s) == [t |-> t, n |-> n, s |-> s]
Undef      == V("undefined", 0, <<>>)
Null       == V("null", 0, <<>>)
Bool(b)    == V("bool", IF b THEN 1 ELSE 0, <<>>)
Num(n2)    == V("num", n2, <<>>)
Whole(i)   == Num(i + i)
PosInf     == V("inf", 0, <<>>)
NegInf     == V("ninf", 0, <<>>)
NaN        == V("nan", 0, <<>>)
Str(s)     == V("str", 0, s)
Array(xs)  == V("array", 0, xs)

IsNullish(v) == v.t \in {"undefined", "null"}

\* ToBoolean: what `v && ...`, `v || ...` and `v ? ... : ...` test.
Truthy(v) ==
  CASE v.t = "undefined" -> FALSE
    [] v.t = "null"      -> FALSE
    [] v.t = "bool"      -> v.n = 1
    [] v.t = "num"       -> v.n # 0
    [] v.t = "nan"       -> FALSE
    [] v.t = "str"       -> v.s # <<>>
    [] OTHER             -> TRUE

\* a || b
Or(a, b) == IF Truthy(a) THEN a ELSE b

\* a ?? b
Coalesce(a, b) == IF IsNullish(a) THEN b ELSE a

----------------------------------------------------------------------------
(* Strings *)

UpperChars == <<"A","B","C","D","E","F","G","H","I","J","K","L","M",
                "N","O","P","Q","R","S","T","U","V","W","X","Y","Z",
                "Ã","Ç","É">>
LowerChars == <<"a","b","c","d","e","f","g","h","i","j","k","l","m",
                "n","o","p","q","r","s","t","u","v","w","x","y","z",
                "ã","ç","é">>
DigitChars == <<"0","1","2","3","4","5","6","7","8","9">>

LowerChar(c) ==
  IF \E i \in 1..Len(UpperChars) : UpperChars[i] = c
    THEN LowerChars[CHOOSE i \in 1..Len(UpperChars) : UpperChars[i] = c]
    ELSE c

\* String.prototype.toLowerCase on the characters the model uses
ToLowerCase(s) == [i \in 1..Len(s) |-> LowerChar(s[i])]

IsDigit(c)  == \E i \in 1..Len(DigitChars) : DigitChars[i] = c
DigitVal(c) == (CHOOSE i \in 1..Len(DigitChars) : DigitChars[i] = c) - 1
AllDigits(s) == \A i \in 1..Len(s) : IsDigit(s[i])

RECURSIVE DigitsVal(_)
DigitsVal(s) ==
  IF s = <<>> THEN 0
  ELSE 10 * DigitsVal(SubSeq(s, 1, Len(s) - 1)) + DigitVal(s[Len(s)])

RECURSIVE NatToDigits(_)
NatToDigits(k) ==
  IF k < 10 THEN <<DigitChars[k + 1]>>
  ELSE NatToDigits(k \div 10) \o <<DigitChars[(k % 10) + 1]>>

RECURSIVE TrimLeft(_)
TrimLeft(s) == IF s # <<>> /\ Head(s) = " " THEN TrimLeft(Tail(s)) ELSE s

RECURSIVE TrimRight(_)
TrimRight(s) ==
  IF s # <<>> /\ s[Len(s)] = " " THEN TrimRight(SubSeq(s, 1, Len(s) - 1)) ELSE s

Trim(s) == TrimRight(TrimLeft(s))

InfinityText == <<"I","n","f","i","n","i","t","y">>

\* The fraction digits of a decimal literal, in halves. The model's numbers
\* are multiples of 1/2, so the literals it draws have a fraction of zeros
\* or of a 5 followed by zeros.
FractionHalves(fp) == IF fp # <<>> /\ fp[1] = "5" THEN 1 ELSE 0

\* An unsigned StrDecimalLiteral without exponent: digits, digits.digits,
\* digits. or .digits
DotsOf(s) == {i \in 1..Len(s) : s[i] = "."}
IsDecimalLiteral(s) ==
  \/ s # <<>> /\ AllDigits(s)
  \/ /\ Cardinality(DotsOf(s)) = 1
     /\ LET d == CHOOSE i \in DotsOf(s) : TRUE
        IN /\ AllDigits(SubSeq(s, 1, d - 1))
           /\ AllDigits(SubSeq(s, d + 1, Len(s)))
           /\ Len(s) > 1
DecimalHalves(s) ==
  IF DotsOf(s) = {} THEN 2 * DigitsVal(s)
  ELSE LET d == CHOOSE i \in DotsOf(s) : TRUE
       IN 2 * DigitsVal(SubSeq(s, 1, d - 1))
            + FractionHalves(SubSeq(s, d + 1, Len(s)))

\* StringToNumber (ECMA-262 7.1.4.1.1): trim, "" is 0, signed Infinity,
\* signed decimal literal, anything else NaN. Exponents and radix prefixes
\* are not among the strings the model draws.
StringToNumber(s) ==
  LET t    == Trim(s)
      neg  == t # <<>> /\ Head(t) = "-"
      body == IF t # <<>> /\ Head(t) \in {"-", "+"} THEN Tail(t) ELSE t
  IN IF t = <<>> THEN Num(0)
     ELSE IF body = InfinityText THEN (IF neg THEN NegInf ELSE PosInf)
     ELSE IF IsDecimalLiteral(body)
       THEN Num(IF neg THEN 0 - DecimalHalves(body) ELSE DecimalHalves(body))
     ELSE NaN

\* Number(v), for the scalar values (arrays occur only as item lists)
ToNumber(v) ==
  CASE v.t = "undefined" -> NaN
    [] v.t = "null"      -> Num(0)
    [] v.t = "bool"      -> Whole(v.n)
    [] v.t = "str"       -> StringToNumber(v.s)
    [] OTHER             -> v

\* Number::toString for the model's numbers
NumberToString(v) ==
  CASE v.t = "inf"  -> InfinityText
    [] v.t = "ninf" -> <<"-">> \o InfinityText
    [] v.t = "nan"  -> <<"N","a","N">>
    [] OTHER ->
         LET a == IF v.n < 0 THEN 0 - v.n ELSE v.n
         IN (IF v.n < 0 THEN <<"-">> ELSE <<>>)
              \o NatToDigits(a \div 2)
              \o (IF a % 2 = 1 THEN <<".", "5">> ELSE <<>>)

\* String(v) and `${v}`
ToString(v) ==
  CASE v.t = "undefined" -> <<"u","n","d","e","f","i","n","e","d">>
    [] v.t = "null"      -> <<"n","u","l","l">>
    [] v.t = "bool"      -> IF v.n = 1 THEN <<"t","r","u","e">>
                                       ELSE <<"f","a","l","s","e">>
    [] v.t = "str"       -> v.s
    [] OTHER             -> NumberToString(v)

----------------------------------------------------------------------------
(* Dates. The model's instants are the milliseconds 0..999 of the epoch's  *)
(* first second, so an ISO date-time is IsoPrefix, three digits and "Z".   *)

IsoPrefix == <<"1","9","7","0","-","0","1","-","0","1","T",
               "0","0",":","0","0",":","0","0",".">>
DateOnlyText == SubSeq(IsoPrefix, 1, 10)

InvalidDate == [valid |-> FALSE, ms |-> 0]
DateAt(ms)  == [valid |-> TRUE, ms |-> ms]

\* Date.parse on an ISO date-time, on the date-only form (UTC midnight), and
\* on text that is no date
DateParse(s) ==
  IF /\ Len(s) = Len(IsoPrefix) + 4
     /\ SubSeq(s, 1, Len(IsoPrefix)) = IsoPrefix
     /\ AllDigits(SubSeq(s, Len(IsoPrefix) + 1, Len(IsoPrefix) + 3))
     /\ s[Len(s)] = "Z"
    THEN DateAt(DigitsVal(SubSeq(s, Len(IsoPrefix) + 1, Len(IsoPrefix) + 3)))
  ELSE IF s = DateOnlyText THEN DateAt(0)
  ELSE InvalidDate

\* new Date(v): a string is parsed, anything else is converted to a number
\* of milliseconds and truncated; NaN and the infinities give Invalid Date
NewDate(v) ==
  IF v.t = "str" THEN DateParse(v.s)
  ELSE LET n == ToNumber(v)
       IN IF n.t = "num"
            THEN DateAt(IF n.n >= 0 THEN n.n \div 2 ELSE 0 - ((0 - n.n) \div 2))
            ELSE InvalidDate

PadMillis(ms) ==
  LET d == NatToDigits(ms)
  IN CASE Len(d) = 1 -> <<"0", "0">> \o d
       [] Len(d) = 2 -> <<"0">> \o d
       [] OTHER      -> d

\* Date.prototype.toISOString of a valid date (an invalid one throws
\* RangeError, which the callers below model)
ToISOString(d) == IsoPrefix \o PadMillis(d.ms) \o <<"Z">>

----------------------------------------------------------------------------
(* Number arithmetic of the reconciler (IEEE 754 on the model's numbers) *)

IsInfinite(v) == v.t \in {"inf", "ninf"}
Sign(v) ==
  CASE v.t = "inf"  -> 1
    [] v.t = "ninf" -> 0 - 1
    [] v.t = "num"  -> IF v.n > 0 THEN 1 ELSE IF v.n < 0 THEN 0 - 1 ELSE 0
    [] OTHER        -> 0

\* v > 0
GreaterThanZero(v) == v.t = "inf" \/ (v.t = "num" /\ v.n > 0)

\* Math.round(v): the nearest integer, ties towards +Infinity
MathRound(v) == IF v.t = "num" THEN Whole((v.n + 1) \div 2) ELSE v

\* Math.round((a * b) / 100). a.n * b.n is four times the product, so the
\* quotient is a.n * b.n / 400; Infinity * 0 is NaN.
RoundProductPer100(a, b) ==
  IF a.t = "nan" \/ b.t = "nan" THEN NaN
  ELSE IF a.t = "num" /\ b.t = "num" THEN Whole((a.n * b.n + 200) \div 400)
  ELSE IF Sign(a) * Sign(b) = 0 THEN NaN
  ELSE IF Sign(a) * Sign(b) > 0 THEN PosInf
  ELSE NegInf

\* a + b
Plus(a, b) ==
  IF a.t = "nan" \/ b.t = "nan" THEN NaN
  ELSE IF a.t = "num" /\ b.t = "num" THEN Num(a.n + b.n)
  ELSE IF IsInfinite(a) /\ IsInfinite(b) THEN (IF a.t = b.t THEN a ELSE NaN)
  ELSE IF IsInfinite(a) THEN a
  ELSE b

----------------------------------------------------------------------------
(* Reconciler: MealsHistoryScreen.tsx *)

\* getItemCalories with Math.floor in place of Math.round in the derivation
getItemCalories_Floors(kcalPer100g, grams, calories) ==
  IF Truthy(calories) /\ GreaterThanZero(calories)
    THEN MathRound(calories)
    ELSE IF kcalPer100g.t = "num" /\ grams.t = "num"
      THEN Whole((kcalPer100g.n * grams.n) \div 400)
      ELSE RoundProductPer100(kcalPer100g, grams)

getItemCalories(kcalPer100g, grams, calories) ==
  IF Truthy(calories) /\ GreaterThanZero(calories)
    THEN MathRound(calories)
    ELSE RoundProductPer100(kcalPer100g, grams)

RECURSIVE ReduceItemCalories(_, _)
ReduceItemCalories(items, acc) ==
  IF items = <<>> THEN acc
  ELSE LET it == Head(items)
       IN ReduceItemCalories(Tail(items),
            Plus(acc, getItemCalories(it.kcalPer100g, it.grams, it.calories)))

\* getMealTotalCalories that always sums the items
getMealTotalCalories_SumsItems(meal) ==
  ReduceItemCalories(meal.items, Whole(0))

getMealTotalCalories(meal) ==
  IF Truthy(meal.totalCalories) /\ GreaterThanZero(meal.totalCalories)
    THEN MathRound(meal.totalCalories)
    ELSE ReduceItemCalories(meal.items, Whole(0))

----------------------------------------------------------------------------
(* Payload normalizer *)

VisionText      == <<"v","i","s","i","o","n">>
VisionUpperText == <<"V","I","S","I","O","N">>
ManualText      == <<"m","a","n","u","a","l">>
BreakfastText   == <<"b","r","e","a","k","f","a","s","t">>
LunchText       == <<"l","u","n","c","h">>
SnackText       == <<"s","n","a","c","k">>
DinnerText      == <<"d","i","n","n","e","r">>
SupperText      == <<"s","u","p","p","e","r">>
OtherText       == <<"o","t","h","e","r">>

\* const allowed: MealType[]
allowed == <<BreakfastText, LunchText, SnackText, DinnerText, SupperText,
             OtherText>>
Includes(list, x) == \E i \in 1..Len(list) : list[i] = x

\* import.meta.env.VITE_API_BASE_URL || "http://localhost:3000"
API_BASE_URL == <<"h","t","t","p",":","/","/","l","o","c","a","l","h","o","s",
                  "t",":","3","0","0","0">>

\* normalizeMealType without the toLowerCase()
normalizeMealType_CaseSensitive(v) ==
  LET s == ToString(Or(v, Str(<<>>)))
  IN IF Includes(allowed, s) THEN Str(s) ELSE Str(OtherText)

normalizeMealType(v) ==
  LET s == ToLowerCase(ToString(Or(v, Str(<<>>))))
  IN IF Includes(allowed, s) THEN Str(s) ELSE Str(OtherText)

\* the source test without the toLowerCase()
NormalizeSourceField_ExactOnly(source) ==
  IF source = Str(VisionText) \/ source = Str(VisionUpperText)
    THEN Str(VisionText)
    ELSE Str(ManualText)

\* The item mapping, written out twice in the source with the same text:
\* MealsHistoryScreen.tsx 113-124 and FoodAnalyzeScreen.tsx 450-461.
NormalizeSourceField(source) ==
  IF ToLowerCase(ToString(source)) = VisionText \/ source = Str(VisionUpperText)
    THEN Str(VisionText)
    ELSE Str(ManualText)

\* Number(x) without the `|| 0`
NumberOrZero_NoFallback(x) == ToNumber(x)

\* Number(x) || 0
NumberOrZero(x) == Or(ToNumber(x), Num(0))

MapApiItem(it) ==
  [ id          |-> Str(ToString(it.id)),
    name        |-> Str(ToString(it.name)),
    grams       |-> NumberOrZero(it.grams),
    kcalPer100g |-> NumberOrZero(it.caloriesPer100g),
    calories    |-> NumberOrZero(it.calories),
    confidence  |-> Coalesce(it.confidence, Undef),
    source      |-> NormalizeSourceField(it.source) ]

MapItems(items) == [i \in 1..Len(items) |-> MapApiItem(items[i])]

\* What a mapping call ends with: a SavedMeal, or an exception
NoMeal      == [none |-> TRUE]
NotRun      == [st |-> "none",  err |-> "",  meal |-> NoMeal]
Threw(e)    == [st |-> "threw", err |-> e,   meal |-> NoMeal]
Returned(m) == [st |-> "ok",    err |-> "",  meal |-> m]

\* the save path's `imagePath ?? undefined` in place of the prefixed URL
HistoryPhotoUrl_Unprefixed(imagePath) == Coalesce(imagePath, Undef)

\* m.imagePath ? `${API_BASE_URL}${m.imagePath}` : undefined
HistoryPhotoUrl(imagePath) ==
  IF Truthy(imagePath) THEN Str(API_BASE_URL \o ToString(imagePath)) ELSE Undef

\* new Date(m.takenAt).toISOString()
HistoryDateTime(m) == NewDate(m.takenAt)
\* new Date(m.createdAt ?? m.takenAt).toISOString()
HistoryCreatedAt(m) == NewDate(Coalesce(m.createdAt, m.takenAt))

mapApiMealToSavedMeal(m) ==
  IF ~IsNullish(m.items) /\ m.items.t # "array" THEN Threw("TypeError")
  ELSE IF ~HistoryDateTime(m).valid \/ ~HistoryCreatedAt(m).valid
    THEN Threw("RangeError")
  ELSE Returned(
    [ id            |-> Str(ToString(m.id)),
      userId        |-> Str(ToString(m.userId)),
      mealType      |-> normalizeMealType(m.type),
      dateTime      |-> Str(ToISOString(HistoryDateTime(m))),
      createdAt     |-> Str(ToISOString(HistoryCreatedAt(m))),
      totalCalories |-> NumberOrZero(m.totalCalories),
      photoUrl      |-> HistoryPhotoUrl(m.imagePath),
      photoDataUrl  |-> Undef,
      items         |-> MapItems(Coalesce(m.items, Array(<<>>)).s) ])

\* saved.imagePath ?? undefined
SavePhotoUrl(imagePath) == Coalesce(imagePath, Undef)

\* handleSaveMealClick from `const saved = await resp.json()` to savedMeal
SaveResponseToSavedMeal(saved, previewDataUrl) ==
  IF saved.items.t # "array" THEN Threw("TypeError")
  ELSE IF ~NewDate(saved.takenAt).valid
          \/ ~NewDate(Coalesce(saved.createdAt, saved.takenAt)).valid
    THEN Threw("RangeError")
  ELSE Returned(
    [ id            |-> Str(ToString(saved.id)),
      userId        |-> Str(ToString(saved.userId)),
      mealType      |-> saved.type,
      dateTime      |-> Str(ToISOString(NewDate(saved.takenAt))),
      createdAt     |-> Str(ToISOString(
                          NewDate(Coalesce(saved.createdAt, saved.takenAt)))),
      totalCalories |-> NumberOrZero(saved.totalCalories),
      photoUrl      |-> SavePhotoUrl(saved.imagePath),
      photoDataUrl  |-> previewDataUrl,
      items         |-> MapItems(saved.items.s) ])

----------------------------------------------------------------------------
(* State *)

VARIABLES
  resp,       \* the MealApi record the server answers with (GET /meals
              \* element, or the POST /meals body)
  histMeal,   \* what mapApiMealToSavedMeal made of resp in loadMealsByDay
  saveMeal,   \* what handleSaveMealClick made of resp
  openedMeal  \* whether the history's detail modal shows histMeal (in the
              \* history screen's own specification: the id of the meal
              \* the modal shows, or null)

\* App.tsx
VARIABLES
  currentScreen,  \* "login", "register", "analyze" or "history"
  user,           \* the logged-in AuthUser, or null
  appMeals,       \* App's `meals`, the in-memory list handleSaveMeal feeds
  session,        \* localStorage's nutrilens_access_token and nutrilens_user
  lastScreen,     \* localStorage's nutrilens:lastScreen, or null
  authLoading,    \* `loading` of the login or register screen rendered
  authError,      \* `error` of the login or register screen rendered
  authPending,    \* the login or register request in flight, or "none"
  pendingSave     \* the preview the POST /meals in flight was sent with,
                  \* or null

\* MealsHistoryScreen.tsx
VARIABLES
  mounted,        \* the history screen is rendered and its effect has run
  meals,          \* the screen's own `meals`
  query,
  selectedDate,
  loading,
  error,
  pendingLoads,   \* GET /meals?date= requests in flight, counted per date
  pendingDelete,  \* the id of the meal whose DELETE is in flight, or null
  serverMeals     \* what the server answers GET /meals with, per date

\* FoodAnalyzeScreen.tsx
VARIABLES
  file,            \* the chosen photo, or null
  reading,         \* a FileReader is reading the chosen photo
  previewDataUrl,
  workingItems,    \* the screen's `items`, the working list of FoodItemUI
  backendMessage,
  analyzing,       \* the screen's `loading`
  saving,
  analyzeError,    \* the screen's `error`
  addModalOpen,
  foodQuery,
  selectedFood,
  modalGrams,
  clock            \* what Date.now() returns

mapVars     == <<resp, histMeal, saveMeal>>
analyzeVars == <<file, reading, previewDataUrl, workingItems, backendMessage,
                 analyzing, saving, analyzeError, addModalOpen, foodQuery,
                 selectedFood, modalGrams, clock>>
authVars    == <<authLoading, authError, authPending>>
appVars     == <<currentScreen, user, appMeals, session, lastScreen, authVars,
                 pendingSave>>
historyVars == <<mounted, meals, query, selectedDate, loading, error,
                 pendingLoads, pendingDelete, serverMeals>>

vars == <<mapVars, openedMeal, appVars, historyVars, analyzeVars>>

----------------------------------------------------------------------------
(* The inbound records the model draws *)

MaxHalf    == 3   \* finite numbers -MaxHalf/2 .. MaxHalf/2 in steps of 1/2
MaxItems   == 2   \* longest item list of a drawn meal
MaxInstant == 2   \* dates at milliseconds 0..MaxInstant

AbcText    == <<"a","b","c">>
PreviewDataUrl == Str(<<"d","a","t","a",":","i","m","g">>)

SmallNumbers == {Num(n) : n \in (0 - MaxHalf)..MaxHalf}
\* 2.5, 42.5, 50, 130, 150, 200, 500
SampleNumbers == {Num(5), Num(85), Whole(50), Whole(130), Whole(150),
                  Whole(200), Whole(500)}
NumericTexts == {Str(NumberToString(v)) : v \in SmallNumbers \cup SampleNumbers}
\* JSON.parse gives Infinity for a literal beyond the double range (1e999)
OtherRawNumbers ==
  {Undef, Null, Bool(TRUE), PosInf, NegInf, Str(<<>>), Str(AbcText),
   Str(InfinityText), Str(<<" ","7"," ">>), Str(<<"1","2","a">>),
   Str(<<"4","2",".","5","0">>), Str(<<".","5">>), Str(<<"+","3",".">>)}
RawNumbers == SmallNumbers \cup SampleNumbers \cup NumericTexts
                \cup OtherRawNumbers

\* a few of them, for the fields a slice does not vary
FewRawNumbers == {Undef, Num(0), Whole(130), Whole(150), PosInf,
                  Str(<<"4","2",".","5">>)}
FewTotals     == {Undef, Num(0), Num(0 - 3), Num(5), Whole(500), PosInf}

RawSources ==
  {Undef, Null, Whole(1), Str(<<>>), Str(VisionText), Str(VisionUpperText),
   Str(<<"V","i","s","i","o","n">>), Str(<<"v","I","s","I","o","N">>),
   Str(<<"x","y","z">>), Str(ManualText), Str(<<"M","A","N","U","A","L">>),
   Str(<<"v","i","s","i","o">>), Str(<<"v","i","s","i","o","n","s">>),
   Str(<<" ","v","i","s","i","o","n">>), Str(<<"v","i","z","i","o","n">>)}

RawConfidences == {Undef, Null, Num(0), Num(1), Whole(1),
                   Str(<<"0",".","5">>), Str(AbcText)}

RawMealTypes ==
  {Undef, Null, Whole(5), Str(<<>>), Str(<<"b","r","u","n","c","h">>),
   Str(<<"L","U","N","C","H">>), Str(<<"L","u","n","c","h">>),
   Str(<<"l","u","n","c","h"," ">>), Str(<<"O","T","H","E","R">>),
   Str(<<"B","r","e","a","k","F","a","s","t">>),
   Str(<<"S","N","A","C","K">>), Str(<<"D","i","n","n","e","r">>),
   Str(<<"s","u","p","p","e","R">>)}
    \cup {Str(allowed[i]) : i \in 1..Len(allowed)}

RawImagePaths ==
  {Undef, Null, Str(<<>>), Str(<<"/","a",".","j","p","g">>),
   Str(<<"/","u","p","/","b",".","p","n","g">>), Whole(7)}

RawDates ==
  {Undef, Null, Str(<<>>), Str(AbcText), Str(DateOnlyText), PosInf}
    \cup {Str(ToISOString(DateAt(k))) : k \in 0..MaxInstant}
    \cup {Whole(k) : k \in 0..MaxInstant}
    \cup {Num(k + k + 1) : k \in 0..MaxInstant}

ApiItem(id, grams, caloriesPer100g, calories, confidence, source) ==
  [ id |-> id, name |-> Str(<<"r","i","c","e">>), grams |-> grams,
    caloriesPer100g |-> caloriesPer100g, kcalPer100g |-> Undef,
    calories |-> calories, confidence |-> confidence, source |-> source ]

\* an item that names its energy density kcalPer100g, as the canonical
\* SavedMealItem does, and carries no caloriesPer100g
ApiItemKcalOnly(id, grams, kcalPer100g, calories, confidence, source) ==
  [ id |-> id, name |-> Str(<<"r","i","c","e">>), grams |-> grams,
    caloriesPer100g |-> Undef, kcalPer100g |-> kcalPer100g,
    calories |-> calories, confidence |-> confidence, source |-> source ]

ApiMeal(type, takenAt, createdAt, totalCalories, imagePath, items) ==
  [ id |-> Str(<<"m","1">>), userId |-> Whole(4), type |-> type,
    takenAt |-> takenAt, createdAt |-> createdAt,
    totalCalories |-> totalCalories, imagePath |-> imagePath,
    items |-> items ]

ItemId == Str(<<"i","1">>)
IsoAt(k) == Str(ToISOString(DateAt(k)))

\* items whose three numeric fields vary
NumericItems ==
  {ApiItem(ItemId, g, k, c, Null, Str(VisionUpperText)) :
     g \in RawNumbers, k \in FewRawNumbers, c \in FewRawNumbers}
  \cup {ApiItem(ItemId, g, k, c, Null, Str(VisionUpperText)) :
     g \in FewRawNumbers, k \in RawNumbers, c \in FewRawNumbers}
  \cup {ApiItem(ItemId, g, k, c, Null, Str(VisionUpperText)) :
     g \in FewRawNumbers, k \in FewRawNumbers, c \in RawNumbers}

\* items whose id, confidence and source vary
TaggedItems ==
  {ApiItem(id, Whole(150), Whole(130), Num(0), conf, src) :
     id \in {ItemId, Whole(7)}, conf \in RawConfidences, src \in RawSources}

\* items that carry only kcalPer100g
KcalOnlyItems ==
  {ApiItemKcalOnly(ItemId, Whole(150), k, c, Null, Str(ManualText)) :
     k \in {Whole(130), Num(5), Str(<<"2","0","0">>)}, c \in {Num(0), Num(3)}}

\* the items of the drawn lists
SampleItems ==
  {ApiItem(ItemId, Whole(150), k, c, Null, Str(ManualText)) :
     k \in {Whole(130), Whole(200)}, c \in {Num(0), Num(3)}}
  \cup {ApiItem(ItemId, Whole(150), PosInf, Num(0), Null, Str(ManualText))}

ItemLists == UNION {[1..n -> SampleItems] : n \in 0..MaxItems}
FewItemLists ==
  {<<>>, <<ApiItem(ItemId, Whole(150), Whole(130), Num(0), Null, Str(VisionText))>>}
ItemsFields == {Undef, Null} \cup {Array(l) : l \in FewItemLists}

InboundMeals ==
  {ApiMeal(Str(LunchText), IsoAt(1), IsoAt(2), Num(0), Undef, Array(<<it>>)) :
     it \in NumericItems \cup TaggedItems \cup KcalOnlyItems}
  \cup {ApiMeal(Str(LunchText), IsoAt(1), Undef, tc, Undef, Array(l)) :
     tc \in FewTotals, l \in ItemLists}
  \cup {ApiMeal(Str(LunchText), IsoAt(1), Undef, tc, Undef, Array(l)) :
     tc \in RawNumbers, l \in FewItemLists}
  \cup {ApiMeal(ty, IsoAt(1), IsoAt(2), Whole(500), ip, its) :
     ty \in RawMealTypes, ip \in RawImagePaths, its \in ItemsFields}
  \cup {ApiMeal(Str(LunchText), ta, ca, Whole(500), Undef, its) :
     ta \in RawDates, ca \in RawDates, its \in ItemsFields}

----------------------------------------------------------------------------
(* Operations *)

\* the dates the history's date input is set to; todayISODate() is the first
Today   == "1970-01-01"
NextDay == "1970-01-02"
Dates   == {Today, NextDay}

NoError      == [set |-> FALSE, msg |-> ""]
ErrorOf(msg) == [set |-> TRUE, msg |-> msg]

NoLoads     == [d \in Dates |-> 0]

\* a User object: id, name and email
UserObj(id, name, email) == [t |-> "object", n |-> 0, s |-> <<id, name, email>>]

\* the user the server knows and the token it issues
UserAna     == UserObj(Str(<<"u","1">>), Str(<<"a","n","a">>), Str(<<"a","@","b">>))
AccessToken == Str(<<"j","w","t">>)

\* JSON.stringify(user) of a User whose three fields are strings (the only
\* ones isAuthResponse lets through to setAuthSession)
JSONStringify(u) ==
  Str(<<"{">> \o u.s[1].s \o <<",">> \o u.s[2].s \o <<",">> \o u.s[3].s
      \o <<"}">>)

RECURSIVE SplitFields(_, _)
\* the fields of a stringified object: text cut at the commas, cur being the
\* field read so far
SplitFields(text, cur) ==
  IF Len(text) = 0 THEN <<Str(cur)>>
  ELSE IF Head(text) = "," THEN <<Str(cur)>> \o SplitFields(Tail(text), <<>>)
  ELSE SplitFields(Tail(text), Append(cur, Head(text)))

\* JSON.parse(text): the value, or a SyntaxError
JSONParse(text) ==
  IF text = <<"n","u","l","l">> THEN [threw |-> FALSE, value |-> Null]
  ELSE IF Len(text) >= 2 /\ Head(text) = "{" /\ text[Len(text)] = "}"
    THEN LET fields == SplitFields(SubSeq(text, 2, Len(text) - 1), <<>>)
         IN IF Len(fields) = 3
              THEN [threw |-> FALSE,
                    value |-> UserObj(fields[1], fields[2], fields[3])]
              ELSE [threw |-> TRUE, value |-> Undef]
  ELSE [threw |-> TRUE, value |-> Undef]

\* localStorage with neither key
NoSession == [token |-> Null, user |-> Null]

\* a storing that writes the user key alone
setAuthSession_UserOnly(accessToken, u) ==
  [token |-> Null, user |-> JSONStringify(u)]

\* localStorage after setAuthSession(accessToken, user)
setAuthSession(accessToken, u) ==
  [token |-> accessToken, user |-> JSONStringify(u)]

\* localStorage after a clearing that forgets the user key
clearAuthSession_TokenOnly(stored) == [stored EXCEPT !.token = Null]

\* localStorage after clearAuthSession()
clearAuthSession(stored) == NoSession

getAuthToken(stored) == stored.token

getAuthUser(stored) ==
  IF ~Truthy(stored.user) THEN Null
  ELSE IF JSONParse(stored.user.s).threw THEN Null
  ELSE JSONParse(stored.user.s).value

\* the useState initial values of LoginScreen and RegisterScreen
AuthStarts ==
  /\ authLoading = FALSE
  /\ authError = NoError
  /\ authPending = "none"
  /\ pendingSave = Null

\* App's useState initial values, with nothing in localStorage
AppStarts ==
  /\ currentScreen = "login"
  /\ user = Null
  /\ appMeals = <<>>
  /\ session = NoSession
  /\ lastScreen = "none"
  /\ AuthStarts

\* MealsHistoryScreen's useState initial values, before its effect runs
HistoryStarts ==
  /\ mounted = FALSE
  /\ meals = <<>>
  /\ query = <<>>
  /\ selectedDate = Today
  /\ loading = FALSE
  /\ error = NoError
  /\ pendingLoads = NoLoads
  /\ pendingDelete = Null

\* the null of selectedFood; the table's ids start at 1
NoFood == [id |-> 0, description |-> <<>>, energy_kcal |-> Num(0)]

\* FoodAnalyzeScreen's useState initial values
AnalyzeStarts ==
  /\ file = Null
  /\ reading = FALSE
  /\ previewDataUrl = Null
  /\ workingItems = <<>>
  /\ backendMessage = ""
  /\ analyzing = FALSE
  /\ saving = FALSE
  /\ analyzeError = NoError
  /\ addModalOpen = FALSE
  /\ foodQuery = <<>>
  /\ selectedFood = NoFood
  /\ modalGrams = Whole(100)
  /\ clock = 0

Init ==
  /\ resp \in InboundMeals
  /\ histMeal = NotRun
  /\ saveMeal = NotRun
  /\ openedMeal = FALSE
  /\ AppStarts
  /\ HistoryStarts
  /\ serverMeals = [d \in Dates |-> <<>>]
  /\ AnalyzeStarts

\* loadMealsByDay, data.map(mapApiMealToSavedMeal) on a response element
LoadMapsMeal ==
  /\ histMeal.st = "none"
  /\ histMeal' = mapApiMealToSavedMeal(resp)
  /\ UNCHANGED <<resp, saveMeal, openedMeal, appVars, historyVars,
                 analyzeVars>>

\* handleSaveMealClick, from resp.json() to the savedMeal given to onSaveMeal
SaveMapsMeal ==
  /\ saveMeal.st = "none"
  /\ saveMeal' = SaveResponseToSavedMeal(resp, PreviewDataUrl)
  /\ UNCHANGED <<resp, histMeal, openedMeal, appVars, historyVars,
                 analyzeVars>>

\* click on a history card: setOpenedMeal(meal)
OpenMeal ==
  /\ histMeal.st = "ok"
  /\ ~openedMeal
  /\ openedMeal' = TRUE
  /\ UNCHANGED <<mapVars, analyzeVars, appVars, historyVars>>

Next == LoadMapsMeal \/ SaveMapsMeal \/ OpenMeal

Spec == Init /\ [][Next]_vars

----------------------------------------------------------------------------
(* What the history view shows of the mapped meal *)

\* the card's total: const total = getMealTotalCalories(meal)
CardTotal == getMealTotalCalories(histMeal.meal)

\* the modal's per-item kcal
ModalItemKcal ==
  [i \in 1..Len(histMeal.meal.items) |->
     LET it == histMeal.meal.items[i]
     IN getItemCalories(it.kcalPer100g, it.grams, it.calories)]

----------------------------------------------------------------------------
(* Claims: the reconciler *)

\* r is the integer nearest to num/den (den > 0), a tie going up:
\* num/den - 1/2 < r <= num/den + 1/2, with r.n twice r
IsNearestInteger(r, num, den) ==
  /\ r.t = "num"
  /\ r.n % 2 = 0
  /\ 2 * num - den < den * r.n
  /\ den * r.n <= 2 * num + den

RECURSIVE SumHalves(_)
SumHalves(xs) == IF xs = <<>> THEN 0 ELSE xs[1].n + SumHalves(Tail(xs))

\* the IEEE sum of a list of numbers, whatever the order of the additions
SumOfNumbers(xs) ==
  LET has(t) == \E i \in 1..Len(xs) : xs[i].t = t
  IN IF has("nan") \/ (has("inf") /\ has("ninf")) THEN NaN
     ELSE IF has("inf") THEN PosInf
     ELSE IF has("ninf") THEN NegInf
     ELSE Num(SumHalves(xs))

\* C1: the total of a saved meal is round(totalCalories) when totalCalories
\* is greater than 0, whatever the items sum to, and otherwise the sum of
\* getItemCalories over the meal's items.
MealTotalPrecedence ==
  histMeal.st = "ok" =>
    LET tc == histMeal.meal.totalCalories
    IN /\ (tc.t = "num" /\ tc.n > 0) => IsNearestInteger(CardTotal, tc.n, 2)
       /\ tc.t = "inf" => CardTotal = PosInf
       /\ ~(tc.t = "inf" \/ (tc.t = "num" /\ tc.n > 0)) =>
            CardTotal = SumOfNumbers(ModalItemKcal)

\* C1 witness: totalCalories 500 over one item deriving to 300 shows 500
MealTotalPrecedenceWitness ==
  /\ histMeal.st = "ok"
  /\ histMeal.meal.totalCalories = Whole(500)
  /\ Len(histMeal.meal.items) = 1
  /\ ModalItemKcal[1] = Whole(300)
  /\ CardTotal = Whole(500)

\* the second example of C1: totalCalories 0 over two items of 195 shows 390
MealTotalSumExample ==
  /\ histMeal.st = "ok"
  /\ histMeal.meal.totalCalories = Num(0)
  /\ Len(histMeal.meal.items) = 2
  /\ ModalItemKcal[1] = Whole(195) /\ ModalItemKcal[2] = Whole(195)
  /\ CardTotal = Whole(390)

\* the rule of C2 for one item: kcalPer100g k, grams g, calories c, result r
ItemCaloriesRule(k, g, c, r) ==
  /\ (c.t = "num" /\ c.n > 0) => IsNearestInteger(r, c.n, 2)
  /\ c.t = "inf" => r = PosInf
  /\ (c = Num(0) /\ k.t = "num" /\ g.t = "num" /\ k.n >= 0 /\ g.n >= 0) =>
       IsNearestInteger(r, k.n * g.n, 400)
  /\ (c = Num(0) /\ k.t = "inf" /\ g.t = "num" /\ g.n >= 0) =>
       r = (IF g.n = 0 THEN NaN ELSE PosInf)
  /\ (c = Num(0) /\ g.t = "inf" /\ k.t = "num" /\ k.n >= 0) =>
       r = (IF k.n = 0 THEN NaN ELSE PosInf)
  /\ (c = Num(0) /\ g.t = "inf" /\ k.t = "inf") => r = PosInf

\* C2: for grams >= 0 and kcalPer100g >= 0 the calories shown for an item
\* are round(calories) when calories > 0, independently of kcalPer100g and
\* grams, and round(kcalPer100g * grams / 100) when calories is 0.
ItemCaloriesReportedElseDerived ==
  (histMeal.st = "ok" /\ openedMeal) =>
    \A i \in 1..Len(histMeal.meal.items) :
      LET it == histMeal.meal.items[i]
      IN ItemCaloriesRule(it.kcalPer100g, it.grams, it.calories,
                          ModalItemKcal[i])

\* C2 witness: 130 kcal/100g, 150 g and calories 0 show 195
ItemCaloriesWitness ==
  /\ histMeal.st = "ok" /\ openedMeal
  /\ \E i \in 1..Len(histMeal.meal.items) :
       /\ histMeal.meal.items[i].kcalPer100g = Whole(130)
       /\ histMeal.meal.items[i].grams = Whole(150)
       /\ histMeal.meal.items[i].calories = Num(0)
       /\ ModalItemKcal[i] = Whole(195)

\* C3: getItemCalories and getMealTotalCalories never return NaN, whatever
\* the record they were given was made from.
ReconcilerNeverNaN ==
  histMeal.st = "ok" =>
    /\ CardTotal.t # "nan"
    /\ \A i \in 1..Len(histMeal.meal.items) : ModalItemKcal[i].t # "nan"

----------------------------------------------------------------------------
(* Claims: the payload normalizer *)

UpperOf(c) ==
  IF \E i \in 1..Len(LowerChars) : LowerChars[i] = c
    THEN UpperChars[CHOOSE i \in 1..Len(LowerChars) : LowerChars[i] = c]
    ELSE c

\* s is the lower-case text t up to the case of its letters
EqualsIgnoringCase(s, t) ==
  /\ Len(s) = Len(t)
  /\ \A i \in 1..Len(t) : s[i] = t[i] \/ s[i] = UpperOf(t[i])

\* the items of the inbound record and of a mapped meal, side by side
RawItems == IF resp.items.t = "array" THEN resp.items.s ELSE <<>>

\* C4: the meal built from the save response equals the meal the history
\* load builds from the same record, in mealType, photoUrl, dates,
\* totalCalories and items (both mappings succeed or fail together).
SavePathMatchesHistoryPath ==
  (histMeal.st # "none" /\ saveMeal.st # "none") =>
    /\ histMeal.st = saveMeal.st
    /\ histMeal.st = "ok" =>
         /\ saveMeal.meal.mealType = histMeal.meal.mealType
         /\ saveMeal.meal.photoUrl = histMeal.meal.photoUrl
         /\ saveMeal.meal.dateTime = histMeal.meal.dateTime
         /\ saveMeal.meal.createdAt = histMeal.meal.createdAt
         /\ saveMeal.meal.totalCalories = histMeal.meal.totalCalories
         /\ saveMeal.meal.items = histMeal.meal.items

\* C5: normalizeMealType returns a member of the six meal types for any
\* input: the lower-cased input if that is one of them, otherwise "other";
\* and no input makes it fail.
MealTypeAlwaysValid ==
  /\ histMeal.st = "ok" =>
       LET raw == resp.type
           mt  == histMeal.meal.mealType
           matches(i) == raw.t = "str" /\ EqualsIgnoringCase(raw.s, allowed[i])
       IN /\ \E i \in 1..Len(allowed) : mt = Str(allowed[i])
          /\ \A i \in 1..Len(allowed) : matches(i) => mt = Str(allowed[i])
          /\ (~\E i \in 1..Len(allowed) : matches(i)) => mt = Str(OtherText)
  /\ (histMeal.st # "none" /\ resp.takenAt = IsoAt(1)
        /\ resp.createdAt \in {IsoAt(2), Undef}) => histMeal.st = "ok"

\* C5 witness: "LUNCH" became "lunch"
MealTypeWitness ==
  /\ histMeal.st = "ok"
  /\ resp.type = Str(<<"L","U","N","C","H">>)
  /\ histMeal.meal.mealType = Str(LunchText)

\* "brunch" became "other"
MealTypeOtherExample ==
  /\ histMeal.st = "ok"
  /\ resp.type = Str(<<"b","r","u","n","c","h">>)
  /\ histMeal.meal.mealType = Str(OtherText)

ItemSourceRule(raw, out) ==
  IF raw.t = "str" /\ EqualsIgnoringCase(raw.s, VisionText)
    THEN out = Str(VisionText)
    ELSE out = Str(ManualText)

SourcesFollowRule(outcome) ==
  outcome.st = "ok" =>
    /\ Len(outcome.meal.items) = Len(RawItems)
    /\ \A i \in 1..Len(RawItems) :
         ItemSourceRule(RawItems[i].source, outcome.meal.items[i].source)

\* C6: a normalized item's source is "vision" exactly when the inbound
\* source equals "vision" case-insensitively, and "manual" for every other
\* value, on the history path and on the save path.
SourceVisionOrManual == SourcesFollowRule(histMeal) /\ SourcesFollowRule(saveMeal)

\* C6 witness: "Vision" became "vision" on both paths
SourceWitness ==
  /\ histMeal.st = "ok" /\ saveMeal.st = "ok"
  /\ Len(RawItems) = 1
  /\ RawItems[1].source = Str(<<"V","i","s","i","o","n">>)
  /\ histMeal.meal.items[1].source = Str(VisionText)
  /\ saveMeal.meal.items[1].source = Str(VisionText)

IsLetter(c) ==
  \E i \in 1..Len(LowerChars) : c = LowerChars[i] \/ c = UpperChars[i]
\* text with a letter that the word Infinity does not have
NonNumericText(s) ==
  \E i \in 1..Len(s) :
    IsLetter(s[i]) /\ ~\E j \in 1..Len(InfinityText) : InfinityText[j] = s[i]

\* the rule of C7 for one field: raw inbound value, out normalized value
NumericRule(raw, out) ==
  /\ out.t \in {"num", "inf", "ninf"}
  /\ IsNullish(raw) => out = Num(0)
  /\ raw.t \in {"num", "inf", "ninf"} => out = raw
  /\ raw.t = "bool" => out = Whole(raw.n)
  /\ raw.t = "str" =>
       /\ \A v \in SmallNumbers \cup SampleNumbers \cup {PosInf, NegInf} :
            raw.s = NumberToString(v) => out = v
       /\ NonNumericText(raw.s) => out = Num(0)

\* C7: grams, caloriesPer100g, calories and totalCalories are normalized to
\* the numeric value of the input when it converts to a number and to 0
\* when it does not; the result is never NaN.
NumericFieldsNormalized ==
  histMeal.st = "ok" =>
    /\ NumericRule(resp.totalCalories, histMeal.meal.totalCalories)
    /\ \A i \in 1..Len(RawItems) :
         /\ NumericRule(RawItems[i].grams, histMeal.meal.items[i].grams)
         /\ NumericRule(RawItems[i].caloriesPer100g,
                        histMeal.meal.items[i].kcalPer100g)
         /\ NumericRule(RawItems[i].calories, histMeal.meal.items[i].calories)

\* C7 witness: grams "42.5" became 42.5 and calories "abc" became 0
NumericWitness ==
  /\ histMeal.st = "ok"
  /\ Len(RawItems) = 1
  /\ RawItems[1].grams = Str(<<"4","2",".","5">>)
  /\ histMeal.meal.items[1].grams = Num(85)
  /\ RawItems[1].calories = Str(AbcText)
  /\ histMeal.meal.items[1].calories = Num(0)

\* C8: photoUrl is the base URL followed by the relative image path when
\* the path is present, undefined when it is absent, null or empty, and
\* never the empty string.
PhotoUrlPrefixedOrUndefined ==
  histMeal.st = "ok" =>
    LET ip  == resp.imagePath
        url == histMeal.meal.photoUrl
        b   == Len(API_BASE_URL)
    IN /\ url # Str(<<>>)
       /\ (IsNullish(ip) \/ ip = Str(<<>>)) => url = Undef
       /\ (ip.t = "str" /\ ip.s # <<>>) =>
            /\ url.t = "str"
            /\ Len(url.s) = b + Len(ip.s)
            /\ SubSeq(url.s, 1, b) = API_BASE_URL
            /\ SubSeq(url.s, b + 1, Len(url.s)) = ip.s

\* C8 witness: "/a.jpg" became "http://localhost:3000/a.jpg"
PhotoUrlWitness ==
  /\ histMeal.st = "ok"
  /\ resp.imagePath = Str(<<"/","a",".","j","p","g">>)
  /\ histMeal.meal.photoUrl = Str(API_BASE_URL \o <<"/","a",".","j","p","g">>)

\* the empty path gave no photoUrl
PhotoUrlEmptyExample ==
  /\ histMeal.st = "ok"
  /\ resp.imagePath = Str(<<>>)
  /\ histMeal.meal.photoUrl = Undef

IsDateText(v) == v.t = "str" /\ DateParse(v.s).valid
IsoOf(v) == Str(ToISOString(DateParse(v.s)))

DatesFallBack(outcome) ==
  outcome.st # "none" =>
    /\ (resp.createdAt = Undef /\ IsDateText(resp.takenAt)) =>
         /\ outcome.st = "ok"
         /\ outcome.meal.dateTime = IsoOf(resp.takenAt)
         /\ outcome.meal.createdAt = IsoOf(resp.takenAt)
    /\ (resp.takenAt = Undef /\ IsDateText(resp.createdAt)) =>
         /\ outcome.st = "ok"
         /\ outcome.meal.dateTime = IsoOf(resp.createdAt)
         /\ outcome.meal.createdAt = IsoOf(resp.createdAt)

\* C9: dateTime and createdAt are ISO strings with fallback in both
\* directions: a missing createdAt takes the value of takenAt, and with a
\* missing takenAt dateTime takes the value of createdAt.
DateFallbackBothWays == DatesFallBack(histMeal) /\ DatesFallBack(saveMeal)

\* C10: normalizing an inbound meal record never raises, on either path.
NormalizeNeverRaises == histMeal.st # "threw" /\ saveMeal.st # "threw"

\* the rule of C11 for one mapping outcome
CaloriesNonNegative(outcome) ==
  outcome.st = "ok" =>
    /\ GreaterThanZero(outcome.meal.totalCalories)
         \/ outcome.meal.totalCalories = Num(0)
    /\ \A i \in 1..Len(outcome.meal.items) :
         GreaterThanZero(outcome.meal.items[i].calories)
           \/ outcome.meal.items[i].calories = Num(0)

\* C11: every normalized item has calories >= 0 and every normalized meal
\* has totalCalories >= 0, whatever the inbound record carries.
NormalizedCaloriesNonNegative ==
  CaloriesNonNegative(histMeal) /\ CaloriesNonNegative(saveMeal)

\* C12: a normalized item's confidence is undefined when the inbound
\* confidence is null or missing, and otherwise a number (never NaN, never
\* a non-number): the numeric conversion of the inbound value.
ConfidenceUndefinedOrNumber ==
  histMeal.st = "ok" =>
    \A i \in 1..Len(RawItems) :
      LET raw == RawItems[i].confidence
          out == histMeal.meal.items[i].confidence
      IN /\ IsNullish(raw) => out = Undef
         /\ ~IsNullish(raw) => out.t \in {"num", "inf", "ninf"}
         /\ raw.t \in {"num", "inf", "ninf"} => out = raw

\* the rule of C13 for one mapping outcome
KcalOnlyKept(outcome) ==
  outcome.st = "ok" =>
    \A i \in 1..Len(RawItems) :
      (RawItems[i].caloriesPer100g = Undef /\ RawItems[i].kcalPer100g.t = "num")
        => outcome.meal.items[i].kcalPer100g = RawItems[i].kcalPer100g

\* C13: the energy density is taken from whichever of caloriesPer100g and
\* kcalPer100g the inbound item carries: an item with only kcalPer100g = k
\* normalizes to kcalPer100g = k.
EnergyDensityFromEitherField == KcalOnlyKept(histMeal) /\ KcalOnlyKept(saveMeal)

----------------------------------------------------------------------------
(* The history screen: loading, ordering, searching and totalling a day *)

MaxDayMeals == 3   \* longest list the server holds for one date
MaxPending  == 2   \* most GET /meals requests in flight at once

\* new Date(meal.dateTime || meal.createdAt).getTime(); the mapped meals
\* carry ISO text in both fields, so the date is valid
EffectiveTime(meal) == NewDate(Or(meal.dateTime, meal.createdAt)).ms

\* the comparator of mapped.sort: negative puts a in front of b
CompareMeals(a, b) == EffectiveTime(b) - EffectiveTime(a)

\* an insertion that puts x in front of the elements it ties with
RECURSIVE InsertMeal_BeforeTies(_, _)
InsertMeal_BeforeTies(sorted, x) ==
  IF Len(sorted) = 0 THEN <<x>>
  ELSE IF CompareMeals(Head(sorted), x) < 0
    THEN <<Head(sorted)>> \o InsertMeal_BeforeTies(Tail(sorted), x)
  ELSE <<x>> \o sorted

\* Array.prototype.sort is stable: x, which came later in the array, goes
\* behind every element the comparator does not put after it
RECURSIVE InsertMeal(_, _)
InsertMeal(sorted, x) ==
  IF Len(sorted) = 0 THEN <<x>>
  ELSE IF CompareMeals(Head(sorted), x) <= 0
    THEN <<Head(sorted)>> \o InsertMeal(Tail(sorted), x)
  ELSE <<x>> \o sorted

RECURSIVE SortMeals(_)
SortMeals(list) ==
  IF Len(list) = 0 THEN <<>>
  ELSE InsertMeal(SortMeals(SubSeq(list, 1, Len(list) - 1)), list[Len(list)])

\* data.map(mapApiMealToSavedMeal): the first element that throws ends it
MapMeals(data) ==
  LET outs == [i \in 1..Len(data) |-> mapApiMealToSavedMeal(data[i])]
      bad  == {i \in 1..Len(data) : outs[i].st = "threw"}
  IN IF bad # {}
       THEN Threw(outs[CHOOSE i \in bad : \A j \in bad : i <= j].err)
       ELSE Returned([i \in 1..Len(data) |-> outs[i].meal])

\* MEAL_TYPE_LABEL[m.mealType] ?? "Refeição"
MEAL_TYPE_LABEL(mealType) ==
  CASE mealType = Str(BreakfastText) ->
         <<"C","a","f","é"," ","d","a"," ","m","a","n","h","ã">>
    [] mealType = Str(LunchText)  -> <<"A","l","m","o","ç","o">>
    [] mealType = Str(SnackText)  -> <<"L","a","n","c","h","e">>
    [] mealType = Str(DinnerText) -> <<"J","a","n","t","a","r">>
    [] mealType = Str(SupperText) -> <<"C","e","i","a">>
    [] mealType = Str(OtherText)  -> <<"O","u","t","r","o">>
    [] OTHER -> <<"R","e","f","e","i","ç","ã","o">>

\* String.prototype.includes
StringIncludes(text, part) ==
  \E i \in 0..(Len(text) - Len(part)) : SubSeq(text, i + 1, i + Len(part)) = part

\* m.items.map((i) => i.name).join(" ")
RECURSIVE JoinNames(_)
JoinNames(items) ==
  IF Len(items) = 0 THEN <<>>
  ELSE IF Len(items) = 1 THEN items[1].name.s
  ELSE items[1].name.s \o <<" ">> \o JoinNames(Tail(items))

\* the predicate of meals.filter in `filtered`
MealMatches(m, q) ==
  \/ StringIncludes(ToLowerCase(MEAL_TYPE_LABEL(m.mealType)), q)
  \/ StringIncludes(ToLowerCase(JoinNames(m.items)), q)

RECURSIVE FilterMeals(_, _)
FilterMeals(list, q) ==
  IF Len(list) = 0 THEN <<>>
  ELSE IF MealMatches(Head(list), q)
    THEN <<Head(list)>> \o FilterMeals(Tail(list), q)
  ELSE FilterMeals(Tail(list), q)

\* const filtered = useMemo(...)
filtered ==
  LET q == ToLowerCase(Trim(query))
  IN IF Len(q) = 0 THEN meals ELSE FilterMeals(meals, q)

\* list.reduce((acc, m) => acc + getMealTotalCalories(m), acc)
RECURSIVE ReduceMealTotals(_, _)
ReduceMealTotals(list, acc) ==
  IF Len(list) = 0 THEN acc
  ELSE ReduceMealTotals(Tail(list), Plus(acc, getMealTotalCalories(Head(list))))

\* the daily total summed over the text-filtered list
dailyTotalCalories_OverFiltered == ReduceMealTotals(filtered, Num(0))

dailyTotalCalories    == ReduceMealTotals(meals, Num(0))
filteredTotalCalories == ReduceMealTotals(filtered, Num(0))

\* the MealApi records a day's list is drawn from: the p-th of a list taken
\* at millisecond k. The first reports its total, the second reports 0 over
\* an item deriving to 195, the third reports 42.5 and has no items.
DayMeal(p, k) ==
  [ ApiMeal(
      CASE p = 1 -> Str(LunchText)
        [] p = 2 -> Str(<<"D","i","n","n","e","r">>)
        [] OTHER -> Str(BreakfastText),
      IsoAt(k), Null,
      CASE p = 1 -> Whole(500) [] p = 2 -> Num(0) [] OTHER -> Num(85),
      Null,
      IF p = 3 THEN Array(<<>>)
      ELSE Array(<<ApiItem(ItemId, Whole(150), Whole(130), Num(0), Null,
                           Str(VisionText))>>))
    EXCEPT !.id = Str(<<"m">> \o NatToDigits(p)) ]

DayInstants == {0, 1}

DayLists ==
  UNION {{[p \in 1..n |-> DayMeal(p, ks[p])] : ks \in [1..n -> DayInstants]} :
           n \in 0..MaxDayMeals}

\* a list whose second meal lacks takenAt
UndatedList == <<DayMeal(1, 0), [DayMeal(2, 0) EXCEPT !.takenAt = Undef]>>

\* the next day always holds one meal of its own
ServerDays ==
  {[d \in Dates |-> IF d = Today THEN today ELSE <<DayMeal(4, 1)>>] :
     today \in DayLists \cup {UndatedList}}

\* the queries typed in the history's search input
HistoryQueries == {<<>>, <<" ","A","l">>, <<"r","i">>}

\* what a request can come back with: a status and the body's text, or a
\* rejected fetch
Unauthorized  == [status |-> 401, text |-> ""]
FetchRejected == [status |-> 0, text |-> "Failed to fetch"]

\* localStorage after fetchAuth has received the reply r (a rejected fetch
\* never reaches the status test)
fetchAuth(r, stored) ==
  IF r.status = 401 THEN clearAuthSession(stored) ELSE stored

\* the message the catch block shows for a failed reply
ReplyMessage(r, fallback) ==
  IF r.status = 0 THEN r.text
  ELSE IF r.text # "" THEN r.text ELSE fallback

PendingTotal == pendingLoads[Today] + pendingLoads[NextDay]

\* const loggedScreen = currentScreen === "history" ? "history" : "analyze"
loggedScreen == IF currentScreen = "history" THEN "history" ELSE "analyze"

\* a render that trusts currentScreen
RenderedScreen_Unguarded == currentScreen

\* the screen App renders
RenderedScreen ==
  IF ~Truthy(user) /\ currentScreen = "register" THEN "register"
  ELSE IF ~Truthy(user) THEN "login"
  ELSE loggedScreen

\* App renders <MealsHistoryScreen/>
HistoryRendered == RenderedScreen = "history"

\* the synchronous start of loadMealsByDay(d), up to the await
StartLoad(d) ==
  /\ PendingTotal < MaxPending
  /\ loading' = TRUE
  /\ error' = NoError
  /\ pendingLoads' = [pendingLoads EXCEPT ![d] = @ + 1]

\* first render of the history screen and its effect on selectedDate
HistoryMount ==
  /\ HistoryRendered /\ ~mounted
  /\ mounted' = TRUE
  /\ StartLoad(selectedDate)
  /\ UNCHANGED <<mapVars, analyzeVars, openedMeal, appVars, meals, query, selectedDate,
                 pendingDelete, serverMeals>>

\* the date input's onChange, and the effect the new selectedDate triggers
SelectDate(d) ==
  /\ mounted /\ d # selectedDate
  /\ selectedDate' = d
  /\ IF d # "" THEN StartLoad(d) ELSE UNCHANGED <<loading, error, pendingLoads>>
  /\ UNCHANGED <<mapVars, analyzeVars, openedMeal, appVars, mounted, meals, query,
                 pendingDelete, serverMeals>>

\* the search input's onChange
SetQuery(q) ==
  /\ mounted /\ q # query
  /\ query' = q
  /\ UNCHANGED <<mapVars, analyzeVars, openedMeal, appVars, mounted, meals, selectedDate,
                 loading, error, pendingLoads, pendingDelete, serverMeals>>

\* click on the i-th card shown: setOpenedMeal(meal)
OpenCard(i) ==
  /\ mounted /\ i \in 1..Len(filtered)
  /\ openedMeal' = filtered[i].id
  /\ UNCHANGED <<mapVars, analyzeVars, appVars, historyVars>>

\* the modal's close buttons: setOpenedMeal(null)
CloseModal ==
  /\ mounted /\ openedMeal # Null
  /\ openedMeal' = Null
  /\ UNCHANGED <<mapVars, analyzeVars, appVars, historyVars>>

\* loadMealsByDay(d) from the await to the end: the response arrives
LoadSucceeds(d) ==
  /\ mounted /\ pendingLoads[d] > 0
  /\ pendingLoads' = [pendingLoads EXCEPT ![d] = @ - 1]
  /\ LET mapped == MapMeals(serverMeals[d])
     IN IF mapped.st = "ok"
          THEN /\ meals' = SortMeals(mapped.meal)
               /\ error' = error
          ELSE /\ meals' = <<>>
               /\ error' = ErrorOf(mapped.err)
  /\ loading' = FALSE
  /\ UNCHANGED <<mapVars, analyzeVars, openedMeal, appVars, mounted, query, selectedDate,
                 pendingDelete, serverMeals>>

\* loadMealsByDay(d) when the fetch rejects or the response is not ok;
\* fetchAuth clears the session on 401
LoadFails(d, r) ==
  /\ mounted /\ pendingLoads[d] > 0
  /\ pendingLoads' = [pendingLoads EXCEPT ![d] = @ - 1]
  /\ session' = fetchAuth(r, session)
  /\ meals' = <<>>
  /\ error' = ErrorOf(ReplyMessage(r, "Erro ao carregar histórico."))
  /\ loading' = FALSE
  /\ UNCHANGED <<mapVars, analyzeVars, openedMeal, currentScreen, user, appMeals,
                 lastScreen, authVars, pendingSave, mounted, query, selectedDate,
                 pendingDelete, serverMeals>>

\* a removal that takes the first meal of the list, whatever its id
WithoutMeal_First(list, mealId) ==
  IF Len(list) = 0 THEN <<>> ELSE Tail(list)

RECURSIVE WithoutMeal(_, _)
\* prev.filter((m) => m.id !== mealId)
WithoutMeal(list, mealId) ==
  IF Len(list) = 0 THEN <<>>
  ELSE IF Head(list).id # mealId
    THEN <<Head(list)>> \o WithoutMeal(Tail(list), mealId)
  ELSE WithoutMeal(Tail(list), mealId)

\* click on the modal's delete button: handleDelete(openedMeal.id) up to
\* the await
HandleDelete ==
  /\ mounted /\ openedMeal # Null /\ pendingDelete = Null
  /\ pendingDelete' = openedMeal
  /\ UNCHANGED <<mapVars, analyzeVars, openedMeal, appVars, mounted, meals,
                 query, selectedDate, loading, error, pendingLoads,
                 serverMeals>>

\* handleDelete from the await on, the server having deleted the meal
DeleteSucceeds ==
  /\ mounted /\ pendingDelete # Null
  /\ serverMeals' = [d \in Dates |-> WithoutMeal(serverMeals[d], pendingDelete)]
  /\ meals' = WithoutMeal(meals, pendingDelete)
  /\ openedMeal' = Null
  /\ pendingDelete' = Null
  /\ UNCHANGED <<mapVars, analyzeVars, appVars, mounted, query, selectedDate, loading,
                 error, pendingLoads>>

\* handleDelete from the await on, when the fetch rejects or the response
\* is not ok; fetchAuth clears the session on 401
DeleteFails(r) ==
  /\ mounted /\ pendingDelete # Null
  /\ session' = fetchAuth(r, session)
  /\ error' = ErrorOf(ReplyMessage(r, "Erro ao excluir refeição."))
  /\ pendingDelete' = Null
  /\ UNCHANGED <<mapVars, analyzeVars, openedMeal, currentScreen, user, appMeals,
                 lastScreen, authVars, pendingSave, mounted, meals, query,
                 selectedDate, loading,
                 pendingLoads, serverMeals>>

\* a logged-in user on the history screen, the server holding any drawn day
HistoryInit ==
  /\ resp = DayMeal(1, 0)
  /\ histMeal = NotRun
  /\ saveMeal = NotRun
  /\ openedMeal = Null
  /\ currentScreen = "history"
  /\ user = UserAna
  /\ appMeals = <<>>
  /\ session = setAuthSession(AccessToken, UserAna)
  /\ lastScreen = "history"
  /\ AuthStarts
  /\ HistoryStarts
  /\ serverMeals \in ServerDays
  /\ AnalyzeStarts

\* the day's list: choosing the date, searching, and the loads
HistoryNext ==
  \/ HistoryMount
  \/ \E d \in Dates \cup {""} : SelectDate(d)
  \/ \E q \in HistoryQueries : SetQuery(q)
  \/ \E d \in Dates : LoadSucceeds(d)
  \/ \E d \in Dates : LoadFails(d, FetchRejected)

SpecHistory == HistoryInit /\ [][HistoryNext]_vars

\* the detail modal over a loaded day: opening, closing and deleting
HistoryModalNext ==
  \/ HistoryMount
  \/ \E d \in Dates : LoadSucceeds(d)
  \/ \E i \in 1..MaxDayMeals : OpenCard(i)
  \/ CloseModal
  \/ \E d \in Dates : SelectDate(d)
  \/ HandleDelete
  \/ DeleteSucceeds
  \/ \E r \in {Unauthorized, FetchRejected} : DeleteFails(r)

SpecHistoryModal == HistoryInit /\ [][HistoryModalNext]_vars

----------------------------------------------------------------------------
(* The order of a loaded day *)

\* the effective date of a meal in milliseconds: its dateTime if present,
\* else its createdAt
EffectiveDate(meal) ==
  IF Len(meal.dateTime.s) > 0 THEN DateParse(meal.dateTime.s).ms
  ELSE DateParse(meal.createdAt.s).ms

\* where the meal stood in the mapped response
PlaceIn(mapped, meal) == CHOOSE i \in 1..Len(mapped) : mapped[i] = meal

\* list holds the meals of mapped, each once, latest first, ties in the
\* order of mapped
SortedFrom(list, mapped) ==
  /\ Len(list) = Len(mapped)
  /\ \A i \in 1..Len(mapped) : \E j \in 1..Len(list) : list[j] = mapped[i]
  /\ \A i, j \in 1..Len(list) :
       i < j =>
         /\ EffectiveDate(list[i]) >= EffectiveDate(list[j])
         /\ EffectiveDate(list[i]) = EffectiveDate(list[j])
              => PlaceIn(mapped, list[i]) < PlaceIn(mapped, list[j])

LoadOrdersMeals ==
  \A d \in Dates :
    (LoadSucceeds(d) /\ MapMeals(serverMeals[d]).st = "ok")
      => SortedFrom(meals', MapMeals(serverMeals[d]).meal)

\* C14: a history load that succeeds leaves the meal list ordered by
\* non-increasing effective date (dateTime, else createdAt), holding exactly
\* the mapped meals of the response, and meals with equal timestamps keep
\* their relative order from the response.
HistorySortedStable == [][LoadOrdersMeals]_vars

\* a day answered as m1 at 0 ms, m2 and m3 at 1 ms, shown as m2, m3, m1
HistorySortedWitness ==
  /\ mounted /\ ~loading
  /\ Len(meals) = 3
  /\ <<meals[1].id, meals[2].id, meals[3].id>>
       = <<Str(<<"m","2">>), Str(<<"m","3">>), Str(<<"m","1">>)>>
  /\ EffectiveDate(meals[1]) = EffectiveDate(meals[2])
  /\ EffectiveDate(meals[2]) > EffectiveDate(meals[3])
  /\ SortedFrom(meals, MapMeals(serverMeals[Today]).meal)

----------------------------------------------------------------------------
(* The totals of a loaded day *)

\* the daily total is the sum of the totals of all the meals the view holds
DailyTotalIsSum ==
  dailyTotalCalories
    = SumOfNumbers([i \in 1..Len(meals) |-> getMealTotalCalories(meals[i])])

\* a step that changes the query and not the meals keeps the daily total
QueryKeepsDailyTotal ==
  (query' # query /\ meals' = meals) => dailyTotalCalories' = dailyTotalCalories

\* C19: the daily total shown in the history view is the sum of
\* getMealTotalCalories over all the meals loaded, and it does not change
\* when the search query changes.
DailyTotalOverAllMeals == []DailyTotalIsSum /\ [][QueryKeepsDailyTotal]_vars

\* three meals of 500, 195 and 43 kcal make 738, while the query " Al"
\* leaves only the lunch in the filtered total
DailyTotalWitness ==
  /\ Len(meals) = 3
  /\ query = <<" ","A","l">>
  /\ Len(filtered) = 1
  /\ dailyTotalCalories = Whole(738)
  /\ filteredTotalCalories = Whole(500)

----------------------------------------------------------------------------
(* The analyze screen's add modal: searching the food reference table *)

TableSize   == 60   \* entries of the reference table
BrowseLimit == 30   \* alimentos.slice(0, 30)
MatchLimit  == 50   \* if (out.length >= 50) break

\* the combining marks U+0300..U+036F the model meets, each one character
CombiningAcute   == "U+0301"
CombiningTilde   == "U+0303"
CombiningCedilla == "U+0327"
CombiningMarks   == {CombiningAcute, CombiningTilde, CombiningCedilla}

\* the canonical decomposition of one character
Decompose(c) ==
  CASE c = "ã" -> <<"a", CombiningTilde>>
    [] c = "ç" -> <<"c", CombiningCedilla>>
    [] c = "é" -> <<"e", CombiningAcute>>
    [] OTHER   -> <<c>>

\* String.prototype.normalize("NFD")
RECURSIVE NormalizeNFD(_)
NormalizeNFD(s) ==
  IF Len(s) = 0 THEN <<>> ELSE Decompose(Head(s)) \o NormalizeNFD(Tail(s))

\* replace(/[\u0300-\u036f]/g, "")
IsNoMark(c) == c \notin CombiningMarks
StripMarks(s) == SelectSeq(s, IsNoMark)

\* the normalization without the removal of the combining marks
normalizeSearch_KeepsMarks(s) == Trim(NormalizeNFD(ToLowerCase(s)))

normalizeSearch(s) == Trim(StripMarks(NormalizeNFD(ToLowerCase(s))))

\* the bundled table: eight descriptions in turn, with their energy_kcal
\* (0 for the kiwi, 265.5 for the bread)
FoodDescription(i) ==
  CASE i % 8 = 1 -> <<"A","r","r","o","z">>
    [] i % 8 = 2 -> <<"K","i","w","i">>
    [] i % 8 = 3 -> <<"P","ã","o">>
    [] i % 8 = 4 -> <<"M","A","Ç","Ã">>
    [] i % 8 = 5 -> <<"U","v","a">>
    [] i % 8 = 6 -> <<"B","a","n","a","n","a">>
    [] i % 8 = 7 -> <<"C","a","f","é">>
    [] OTHER     -> <<"A","v","e","i","a">>

FoodEnergy(i) ==
  CASE i % 8 = 2 -> Num(0)
    [] i % 8 = 3 -> Num(531)
    [] OTHER     -> Whole(40 + i)

alimentos ==
  [i \in 1..TableSize |->
     [id |-> i, description |-> FoodDescription(i), energy_kcal |-> FoodEnergy(i)]]

\* Array.prototype.slice(0, n)
SliceTo(list, n) == SubSeq(list, 1, IF n < Len(list) THEN n ELSE Len(list))

\* the list for an empty query with no limit on it
BrowseFoods_WholeTable == alimentos

\* alimentos.slice(0, 30)
BrowseFoods == SliceTo(alimentos, BrowseLimit)

\* const hay = normalizeSearch(a.description), for each entry a
haystacks ==
  [i \in 1..TableSize |-> normalizeSearch(alimentos[i].description)]

\* the for loop of filteredFoods from index i on, out holding the matches
RECURSIVE ScanFoods(_, _, _)
ScanFoods(i, out, q) ==
  IF i > Len(alimentos) THEN out
  ELSE LET hay  == haystacks[i]
           out2 == IF StringIncludes(hay, q) THEN Append(out, alimentos[i])
                   ELSE out
       IN IF Len(out2) >= MatchLimit THEN out2 ELSE ScanFoods(i + 1, out2, q)

\* const filteredFoods = useMemo(...)
filteredFoods ==
  LET q == normalizeSearch(foodQuery)
  IN IF Len(q) = 0 THEN BrowseFoods ELSE ScanFoods(1, <<>>, q)

\* the texts typed in the modal's search input
FoodQueries ==
  {<<>>, <<" ">>, <<"p","a","o">>, <<"P","Ã","O"," ">>, <<"a">>,
   <<"z","z">>, <<CombiningTilde>>}

\* the rows of the result list the model clicks
PickPositions == {1, 2}

\* App renders <FoodAnalyzeScreen/>
AnalyzeRendered == RenderedScreen = "analyze"

\* openAddModal
OpenAddModal ==
  /\ AnalyzeRendered
  /\ analyzeError' = NoError
  /\ addModalOpen' = TRUE
  /\ foodQuery' = <<>>
  /\ selectedFood' = NoFood
  /\ modalGrams' = Whole(100)
  /\ UNCHANGED <<mapVars, openedMeal, appVars, historyVars, file, reading,
                 previewDataUrl, workingItems, backendMessage, analyzing,
                 saving, clock>>

\* closeAddModal
CloseAddModal ==
  /\ AnalyzeRendered /\ addModalOpen
  /\ addModalOpen' = FALSE
  /\ UNCHANGED <<mapVars, openedMeal, appVars, historyVars, file, reading,
                 previewDataUrl, workingItems, backendMessage, analyzing,
                 saving, analyzeError, foodQuery, selectedFood, modalGrams,
                 clock>>

\* the modal's search input onChange
SetFoodQuery(q) ==
  /\ AnalyzeRendered /\ addModalOpen /\ q # foodQuery
  /\ foodQuery' = q
  /\ UNCHANGED <<mapVars, openedMeal, appVars, historyVars, file, reading,
                 previewDataUrl, workingItems, backendMessage, analyzing,
                 saving, analyzeError, addModalOpen, selectedFood, modalGrams,
                 clock>>

\* click on a row of the result list: setSelectedFood(a)
SelectFood(pos) ==
  /\ AnalyzeRendered /\ addModalOpen /\ pos \in 1..Len(filteredFoods)
  /\ selectedFood' = filteredFoods[pos]
  /\ UNCHANGED <<mapVars, openedMeal, appVars, historyVars, file, reading,
                 previewDataUrl, workingItems, backendMessage, analyzing,
                 saving, analyzeError, addModalOpen, foodQuery, modalGrams,
                 clock>>

MaxAdds == 1   \* manual additions to the working list

\* the texts typed in a quantity input
QuantityTexts == {<<>>, <<"2",".","5">>}

\* the modal's quantity input onChange: setModalGrams(Number(value) || 0)
SetModalGrams(text) ==
  /\ AnalyzeRendered /\ addModalOpen /\ selectedFood # NoFood
  /\ modalGrams' = NumberOrZero(Str(text))
  /\ modalGrams' # modalGrams
  /\ UNCHANGED <<mapVars, openedMeal, appVars, historyVars, file, reading,
                 previewDataUrl, workingItems, backendMessage, analyzing,
                 saving, analyzeError, addModalOpen, foodQuery, selectedFood,
                 clock>>

\* `manual-${Date.now()}`
ManualId(now) == <<"manual", now>>

\* addSelectedFoodToMeal; the button is disabled while nothing is selected,
\* and the clock has moved on by the next click
AddSelectedFood ==
  /\ AnalyzeRendered /\ addModalOpen /\ selectedFood # NoFood
  /\ clock < MaxAdds
  /\ LET kcalPor100g == MathRound(NumberOrZero(selectedFood.energy_kcal))
         quantidade  == IF GreaterThanZero(modalGrams) THEN modalGrams
                        ELSE Whole(100)
         newItem     == [ id               |-> ManualId(clock),
                          nome             |-> selectedFood.description,
                          quantidadeGramas |-> quantidade,
                          kcalPor100g      |-> kcalPor100g,
                          confianca        |-> Undef,
                          origem           |-> ManualText ]
     IN IF ~GreaterThanZero(kcalPor100g)
          THEN /\ analyzeError' =
                    ErrorOf("Esse alimento não possui calorias válidas na base.")
               /\ UNCHANGED <<workingItems, addModalOpen>>
          ELSE /\ workingItems' = Append(workingItems, newItem)
               /\ addModalOpen' = FALSE
               /\ UNCHANGED analyzeError
  /\ clock' = clock + 1
  /\ UNCHANGED <<mapVars, openedMeal, appVars, historyVars, file, reading,
                 previewDataUrl, backendMessage, analyzing, saving, foodQuery,
                 selectedFood, modalGrams>>

\* a logged-in user on the analyze screen
AnalyzeInit ==
  /\ resp = DayMeal(1, 0)
  /\ histMeal = NotRun
  /\ saveMeal = NotRun
  /\ openedMeal = Null
  /\ currentScreen = "analyze"
  /\ user = UserAna
  /\ appMeals = <<>>
  /\ session = setAuthSession(AccessToken, UserAna)
  /\ lastScreen = "analyze"
  /\ AuthStarts
  /\ HistoryStarts
  /\ serverMeals = [d \in Dates |-> <<>>]
  /\ AnalyzeStarts

SearchNext ==
  \/ OpenAddModal
  \/ CloseAddModal
  \/ \E q \in FoodQueries : SetFoodQuery(q)
  \/ \E pos \in PickPositions : SelectFood(pos)
  \/ \E text \in QuantityTexts : SetModalGrams(text)
  \/ AddSelectedFood

SpecSearch == AnalyzeInit /\ [][SearchNext]_vars

----------------------------------------------------------------------------
(* What the food search returns *)

\* C15: a query that is empty after trimming gets exactly the first 30
\* entries of the reference table (all of them if it has fewer), in table
\* order.
EmptyQueryBrowsesFirstThirty ==
  Len(Trim(foodQuery)) = 0 =>
    /\ Len(filteredFoods) = (IF TableSize < 30 THEN TableSize ELSE 30)
    /\ \A k \in 1..Len(filteredFoods) : filteredFoods[k] = alimentos[k]

\* the query " " typed over a table of more than 30 entries
EmptyQueryWitness ==
  /\ addModalOpen
  /\ foodQuery = <<" ">>
  /\ Len(filteredFoods) = 30
  /\ Len(alimentos) > 30
  /\ filteredFoods[30] = alimentos[30]

\* a text with its letters lower-cased and its diacritics taken off
RECURSIVE BaseLetters(_)
BaseLetters(s) ==
  IF Len(s) = 0 THEN <<>>
  ELSE LET c == LowerChar(Head(s))
       IN (CASE c \in CombiningMarks -> <<>>
             [] c = "ã" -> <<"a">>
             [] c = "ç" -> <<"c">>
             [] c = "é" -> <<"e">>
             [] OTHER   -> <<c>>) \o BaseLetters(Tail(s))

\* the table positions whose description contains the needle
MatchingEntries(needle) ==
  {i \in 1..Len(alimentos) :
     StringIncludes(BaseLetters(alimentos[i].description), needle)}

\* result is the first min(50, matches) matching entries, in table order
IsFirstMatches(result, needle) ==
  LET matching == MatchingEntries(needle)
      nth(k)   == CHOOSE i \in matching :
                    Cardinality({j \in matching : j <= i}) = k
  IN /\ Len(result)
          = (IF Cardinality(matching) < 50 THEN Cardinality(matching) ELSE 50)
     /\ \A k \in 1..Len(result) : result[k] = alimentos[nth(k)]

\* C16 as stated: every query that is not empty gets the first
\* min(50, matches) entries whose case-folded, diacritic-stripped description
\* contains the case-folded, diacritic-stripped query.
NonEmptyQueryGetsFirstMatches ==
  Len(Trim(foodQuery)) > 0 =>
    IsFirstMatches(filteredFoods, BaseLetters(Trim(foodQuery)))

\* C16, amended: a query that is not empty once case-folded, stripped of
\* its diacritics and trimmed gets the first min(50, matches) entries, in
\* table order, whose case-folded, diacritic-stripped description contains
\* it; a query that this leaves empty gets the browse list.
NormalizedQueryGetsFirstMatches ==
  LET needle == Trim(BaseLetters(foodQuery))
  IN IF Len(needle) > 0 THEN IsFirstMatches(filteredFoods, needle)
     ELSE filteredFoods = SubSeq(alimentos, 1, 30)

\* "a" is in 52 descriptions, in "Pão" only once its tilde is off: 50 shown
FirstMatchesWitness ==
  /\ addModalOpen
  /\ foodQuery = <<"a">>
  /\ Cardinality(MatchingEntries(<<"a">>)) = 52
  /\ Len(filteredFoods) = 50
  /\ filteredFoods[2].description = <<"P","ã","o">>
  /\ filteredFoods[50] = alimentos[57]

----------------------------------------------------------------------------
(* The analyze screen: the photo, its analysis and the working list *)

PhotoFile == Str(<<"f","o","t","o",".","j","p","g">>)

\* the calories shown for an item as the analysis reported them per portion
calcItemCalories_PerPortion(it) == MathRound(it.kcalPor100g)

\* Math.round((it.kcalPor100g * it.quantidadeGramas) / 100)
calcItemCalories(it) == RoundProductPer100(it.kcalPor100g, it.quantidadeGramas)

\* items.reduce((acc, item) => acc + calcItemCalories(item), 0)
RECURSIVE ReduceCalcCalories(_, _)
ReduceCalcCalories(list, acc) ==
  IF Len(list) = 0 THEN acc
  ELSE ReduceCalcCalories(Tail(list), Plus(acc, calcItemCalories(Head(list))))

totalCalories == ReduceCalcCalories(workingItems, Num(0))

\* the BackendItem lists POST /food/analyze answers with: rice at 130.5 kcal,
\* alone or followed by beans at 77 kcal
BackendItem(nome, caloriasPorPorcao, confianca) ==
  [nome |-> nome, caloriasPorPorcao |-> caloriasPorPorcao,
   confianca |-> confianca]

AnalysisReplies ==
  LET rice  == BackendItem(<<"r","i","c","e">>, Num(261), Num(1))
      beans == BackendItem(<<"b","e","a","n","s">>, Whole(77), Num(2))
  IN {[mensagem |-> "ok", itens |-> <<rice>>],
      [mensagem |-> "ok", itens |-> <<rice, beans>>]}

\* data.itens.map<FoodItemUI>((item, index) => ...)
MapBackendItems(itens) ==
  [k \in 1..Len(itens) |->
     [ id               |-> <<"vision", k - 1>>,
       nome             |-> itens[k].nome,
       quantidadeGramas |-> Whole(100),
       kcalPor100g      |-> MathRound(itens[k].caloriasPorPorcao),
       confianca        |-> itens[k].confianca,
       origem           |-> VisionText ]]

\* resetResult
ResetResult ==
  /\ workingItems' = <<>>
  /\ backendMessage' = ""
  /\ analyzeError' = NoError

\* handleFileChange with a file chosen; the FileReader answers later
HandleFileChange ==
  /\ AnalyzeRendered
  /\ file' = PhotoFile
  /\ reading' = TRUE
  /\ ResetResult
  /\ UNCHANGED <<mapVars, openedMeal, appVars, historyVars, previewDataUrl,
                 analyzing, saving, addModalOpen, foodQuery, selectedFood,
                 modalGrams, clock>>

\* reader.onload: setPreviewDataUrl(reader.result)
PreviewLoaded ==
  /\ AnalyzeRendered /\ reading
  /\ reading' = FALSE
  /\ previewDataUrl' = PreviewDataUrl
  /\ UNCHANGED <<mapVars, openedMeal, appVars, historyVars, file,
                 workingItems, backendMessage, analyzing, saving, analyzeError,
                 addModalOpen, foodQuery, selectedFood, modalGrams, clock>>

\* handleAnalyze up to the await; the button is disabled without a file and
\* while loading
HandleAnalyze ==
  /\ AnalyzeRendered /\ file # Null /\ ~analyzing
  /\ analyzing' = TRUE
  /\ analyzeError' = NoError
  /\ workingItems' = <<>>
  /\ UNCHANGED <<mapVars, openedMeal, appVars, historyVars, file, reading,
                 previewDataUrl, backendMessage, saving, addModalOpen,
                 foodQuery, selectedFood, modalGrams, clock>>

\* handleAnalyze from the await on, the response being ok
AnalyzeSucceeds(data) ==
  /\ AnalyzeRendered /\ analyzing
  /\ backendMessage' = data.mensagem
  /\ workingItems' = MapBackendItems(data.itens)
  /\ analyzing' = FALSE
  /\ UNCHANGED <<mapVars, openedMeal, appVars, historyVars, file, reading,
                 previewDataUrl, saving, analyzeError, addModalOpen, foodQuery,
                 selectedFood, modalGrams, clock>>

\* handleAnalyze from the await on, the fetch rejected or the response not ok
AnalyzeFails(r) ==
  /\ AnalyzeRendered /\ analyzing
  /\ analyzeError' = ErrorOf(ReplyMessage(r, "Erro ao analisar imagem."))
  /\ analyzing' = FALSE
  /\ UNCHANGED <<mapVars, openedMeal, appVars, historyVars, file, reading,
                 previewDataUrl, workingItems, backendMessage, saving,
                 addModalOpen, foodQuery, selectedFood, modalGrams, clock>>

\* the quantity input of the i-th item:
\* updateItemQuantity(item.id, Number(e.target.value) || 0)
UpdateItemQuantity(i, text) ==
  /\ AnalyzeRendered /\ i \in 1..Len(workingItems)
  /\ LET id    == workingItems[i].id
         grams == NumberOrZero(Str(text))
     IN workingItems' =
          [k \in 1..Len(workingItems) |->
             IF workingItems[k].id = id
               THEN [workingItems[k] EXCEPT !.quantidadeGramas = grams]
               ELSE workingItems[k]]
  /\ workingItems' # workingItems
  /\ UNCHANGED <<mapVars, openedMeal, appVars, historyVars, file, reading,
                 previewDataUrl, backendMessage, analyzing, saving,
                 analyzeError, addModalOpen, foodQuery, selectedFood,
                 modalGrams, clock>>

\* prev.filter((it) => it.id !== id)
RECURSIVE WithoutItem(_, _)
WithoutItem(list, id) ==
  IF Len(list) = 0 THEN <<>>
  ELSE IF Head(list).id # id THEN <<Head(list)>> \o WithoutItem(Tail(list), id)
  ELSE WithoutItem(Tail(list), id)

\* the remove button of the i-th item: removeItem(item.id)
RemoveItem(i) ==
  /\ AnalyzeRendered /\ i \in 1..Len(workingItems)
  /\ workingItems' = WithoutItem(workingItems, workingItems[i].id)
  /\ UNCHANGED <<mapVars, openedMeal, appVars, historyVars, file, reading,
                 previewDataUrl, backendMessage, analyzing, saving,
                 analyzeError, addModalOpen, foodQuery, selectedFood,
                 modalGrams, clock>>

\* longest working list: two analysed items and the manual additions
MaxWorking == 2 + MaxAdds

AnalyzeNext ==
  \/ HandleFileChange
  \/ PreviewLoaded
  \/ HandleAnalyze
  \/ \E data \in AnalysisReplies : AnalyzeSucceeds(data)
  \/ AnalyzeFails(FetchRejected)
  \/ \E i \in 1..MaxWorking, text \in QuantityTexts : UpdateItemQuantity(i, text)
  \/ \E i \in 1..MaxWorking : RemoveItem(i)
  \/ OpenAddModal
  \/ CloseAddModal
  \/ \E pos \in PickPositions : SelectFood(pos)
  \/ \E text \in QuantityTexts : SetModalGrams(text)
  \/ AddSelectedFood

SpecAnalyze == AnalyzeInit /\ [][AnalyzeNext]_vars

----------------------------------------------------------------------------
(* What the analyze screen shows and holds *)

\* C17: the calories shown for each unsaved item are
\* round(kcalPor100g * quantidadeGramas / 100) of its current grams, in
\* every state, whatever the analysis reported and whatever was typed since.
ShownCaloriesAlwaysDerived ==
  \A k \in 1..Len(workingItems) :
    LET it == workingItems[k]
    IN IsNearestInteger(calcItemCalories(it),
                        it.kcalPor100g.n * it.quantidadeGramas.n, 400)

\* rice analysed at 130.5 kcal per portion and edited to 2.5 g shows 3 kcal
ShownCaloriesWitness ==
  /\ Len(workingItems) >= 1
  /\ workingItems[1].origem = VisionText
  /\ workingItems[1].kcalPor100g = Whole(131)
  /\ workingItems[1].quantidadeGramas = Num(5)
  /\ calcItemCalories(workingItems[1]) = Whole(3)
  /\ totalCalories = Whole(3)

\* C18: every item of the working list has grams > 0 and kcalPor100g >= 0
\* in every reachable state, after any sequence of image analysis, manual
\* add, quantity edit and remove.
WorkingItemsAlwaysValid ==
  \A k \in 1..Len(workingItems) :
    /\ GreaterThanZero(workingItems[k].quantidadeGramas)
    /\ GreaterThanZero(workingItems[k].kcalPor100g)
         \/ workingItems[k].kcalPor100g = Num(0)

----------------------------------------------------------------------------
(* The application: login, navigation, saving a meal, its history *)

MaxSaves == 2   \* meals the server accepts for the day

\* a screen that is no longer rendered loses its state; the next one
\* rendered starts from its useState initial values. The login, register
\* and save requests of a screen that was left are still answered; its
\* analysis, loads and deletes are dropped with it.
AnalyzeFresh ==
  /\ file' = Null
  /\ reading' = FALSE
  /\ previewDataUrl' = Null
  /\ workingItems' = <<>>
  /\ backendMessage' = ""
  /\ analyzing' = FALSE
  /\ saving' = FALSE
  /\ analyzeError' = NoError
  /\ addModalOpen' = FALSE
  /\ foodQuery' = <<>>
  /\ selectedFood' = NoFood
  /\ modalGrams' = Whole(100)
  /\ UNCHANGED clock

HistoryFresh ==
  /\ mounted' = FALSE
  /\ meals' = <<>>
  /\ query' = <<>>
  /\ selectedDate' = Today
  /\ loading' = FALSE
  /\ error' = NoError
  /\ pendingLoads' = NoLoads
  /\ pendingDelete' = Null
  /\ openedMeal' = Null

\* a persistence that does not ask for a user
PersistedScreen_AnyUser(u, screen, last) ==
  IF screen \in {"analyze", "history"} THEN screen ELSE last

\* the effect on [currentScreen, user]: what localStorage's last screen is
\* after a render with user u on screen
PersistedScreen(u, screen, last) ==
  IF u # Null /\ screen \in {"analyze", "history"} THEN screen ELSE last

\* the list with the meal put behind the ones it holds
handleSaveMeal_Appends(meal, prev) == Append(prev, meal)

\* setMeals((prev) => [meal, ...prev])
handleSaveMeal(meal, prev) == <<meal>> \o prev

\* what POST /auth/login and POST /auth/register come back with: a status,
\* whether the content type is JSON, the parsed body and the body's text
AuthBody(accessToken, u, message) ==
  [accessToken |-> accessToken, user |-> u, message |-> message]

AuthReply(status, json, data, text) ==
  [status |-> status, json |-> json, data |-> data, text |-> text]

NoBody == AuthBody(Undef, Undef, Undef)

AuthReplies ==
  { AuthReply(0, FALSE, NoBody, "Failed to fetch"),
    AuthReply(502, FALSE, NoBody, "Bad Gateway"),
    AuthReply(401, TRUE, AuthBody(Undef, Undef, Str(<<"n","o">>)), ""),
    AuthReply(200, TRUE, AuthBody(AccessToken, UserAna, Undef), ""),
    AuthReply(200, TRUE, AuthBody(Undef, UserAna, Undef), ""),
    AuthReply(200, TRUE, AuthBody(AccessToken, Null, Undef), ""),
    AuthReply(200, TRUE,
      AuthBody(AccessToken,
               UserObj(Whole(7), Str(<<"a","n","a">>), Str(<<"a","@","b">>)),
               Undef), "") }

\* isAuthResponse(value)
isAuthResponse(data) ==
  /\ data.accessToken.t = "str"
  /\ Truthy(data.user)
  /\ data.user.t = "object"
  /\ \A k \in 1..3 : data.user.s[k].t = "str"

\* loginUser / registerUser from the reply on: the pair they return, or
\* the Error they throw (unexpected being the message for a body that is
\* not an auth response)
AuthOutcome(reply, unexpected) ==
  IF reply.status = 0
    THEN [threw |-> TRUE, msg |-> reply.text, data |-> NoBody]
  ELSE IF ~reply.json
    THEN [threw |-> TRUE,
          msg |-> IF reply.text # "" THEN reply.text ELSE "Erro HTTP",
          data |-> NoBody]
  ELSE IF reply.status \notin 200..299
    THEN [threw |-> TRUE,
          msg |-> IF reply.data.message.t = "str" THEN "message"
                  ELSE "Erro HTTP",
          data |-> NoBody]
  ELSE IF ~isAuthResponse(reply.data)
    THEN [threw |-> TRUE, msg |-> unexpected, data |-> NoBody]
  ELSE [threw |-> FALSE, msg |-> "", data |-> reply.data]

\* the two setItem calls of setAuthSession, the throwsAt-th of them (0: none)
\* throwing for want of room
WriteSession(stored, accessToken, u, throwsAt) ==
  IF throwsAt = 1 THEN stored
  ELSE IF throwsAt = 2
    THEN [stored EXCEPT !.token = setAuthSession(accessToken, u).token]
  ELSE setAuthSession(accessToken, u)

\* a handler that tells the application first and stores afterwards
AfterAuthReply_NotifiesFirst(out, stored, throwsAt) ==
  IF out.threw
    THEN [session |-> stored, user |-> Null, error |-> ErrorOf(out.msg)]
  ELSE [session |-> WriteSession(stored, out.data.accessToken, out.data.user,
                                 throwsAt),
        user |-> out.data.user,
        error |-> IF throwsAt = 0 THEN NoError ELSE ErrorOf("QuotaExceededError")]

\* handleSubmit from the await on: setAuthSession(accessToken, user), then
\* onLogin(user) / onRegister(user); the catch block for whatever threw
AfterAuthReply(out, stored, throwsAt) ==
  IF out.threw
    THEN [session |-> stored, user |-> Null, error |-> ErrorOf(out.msg)]
  ELSE IF throwsAt # 0
    THEN [session |-> WriteSession(stored, out.data.accessToken,
                                   out.data.user, throwsAt),
          user |-> Null, error |-> ErrorOf("QuotaExceededError")]
  ELSE [session |-> setAuthSession(out.data.accessToken, out.data.user),
        user |-> out.data.user, error |-> NoError]

\* which of the two setItem calls throws: none, the first, the second
WriteFaults == {0, 1, 2}

\* what is typed into the forms
Names     == {<<>>, <<"A","n","a">>}
Emails    == {<<" ">>, <<"a","@","b">>}
Passwords == {<<"p","w">>, <<"s","e","c","r","e","t">>}
MinPassword == 6

\* LoginScreen's validation: the message it sets, or "" when it passes
LoginInvalid(email, password) ==
  IF Len(Trim(email)) = 0 \/ Len(Trim(password)) = 0
    THEN "Informe e-mail e senha."
  ELSE ""

\* RegisterScreen's validation
RegisterInvalid(name, email, password, confirmPassword) ==
  IF Len(Trim(name)) = 0 THEN "Informe seu nome completo."
  ELSE IF Len(Trim(email)) = 0 THEN "Informe um e-mail válido."
  ELSE IF Len(Trim(password)) = 0 \/ Len(password) < MinPassword
    THEN "A senha deve ter pelo menos 6 caracteres."
  ELSE IF password # confirmPassword THEN "As senhas não coincidem."
  ELSE ""

LoginRendered    == RenderedScreen = "login"
RegisterRendered == RenderedScreen = "register"

\* handleSubmit of either screen up to the await; the button is disabled
\* while loading
Submit(kind, invalid) ==
  /\ ~authLoading /\ authPending = "none"
  /\ IF invalid # ""
       THEN /\ authError' = ErrorOf(invalid)
            /\ UNCHANGED <<authLoading, authPending>>
       ELSE /\ authError' = NoError
            /\ authLoading' = TRUE
            /\ authPending' = kind
  /\ UNCHANGED <<mapVars, openedMeal, currentScreen, user, appMeals, session,
                 lastScreen, pendingSave, historyVars, analyzeVars>>

SubmitLogin(email, password) ==
  /\ LoginRendered
  /\ Submit("login", LoginInvalid(email, password))

SubmitRegister(name, email, password, confirmPassword) ==
  /\ RegisterRendered
  /\ Submit("register",
            RegisterInvalid(name, email, password, confirmPassword))

\* the screen that sent the request in flight is still the one rendered
SenderRendered ==
  \/ authPending = "login" /\ LoginRendered
  \/ authPending = "register" /\ RegisterRendered

\* handleSubmit from the await on, and handleLogin / handleRegister
AuthReplyArrives(reply, throwsAt) ==
  /\ authPending # "none"
  /\ LET out == AuthOutcome(reply,
                  IF authPending = "login"
                    THEN "Resposta inesperada do servidor no login."
                    ELSE "Resposta inesperada do servidor no cadastro.")
         after == AfterAuthReply(out, session, throwsAt)
     IN /\ session' = after.session
        /\ user' = after.user
        /\ currentScreen' = IF after.user # Null THEN "analyze"
                            ELSE currentScreen
        /\ authError' = IF after.user # Null THEN NoError
                        ELSE IF SenderRendered THEN after.error
                        ELSE authError
        /\ authLoading' = IF after.user # Null \/ SenderRendered THEN FALSE
                          ELSE authLoading
  /\ authPending' = "none"
  /\ lastScreen' = PersistedScreen(user', currentScreen', lastScreen)
  /\ UNCHANGED <<mapVars, openedMeal, appMeals, pendingSave, historyVars,
                 analyzeVars>>

\* the login screen and the register screen start from their useState
\* initial values; a request already sent stays in flight
AuthFresh ==
  /\ authLoading' = FALSE
  /\ authError' = NoError

\* onGoToRegister
GoToRegister ==
  /\ LoginRendered
  /\ currentScreen' = "register"
  /\ AuthFresh
  /\ UNCHANGED <<mapVars, openedMeal, user, appMeals, session, lastScreen,
                 authPending, pendingSave, historyVars, analyzeVars>>

\* onBackToLogin
BackToLogin ==
  /\ RegisterRendered
  /\ currentScreen' = "login"
  /\ AuthFresh
  /\ UNCHANGED <<mapVars, openedMeal, user, appMeals, session, lastScreen,
                 authPending, pendingSave, historyVars, analyzeVars>>

\* handleLogout
handleLogout ==
  /\ user # Null
  /\ session' = clearAuthSession(session)
  /\ user' = Null
  /\ appMeals' = <<>>
  /\ currentScreen' = "login"
  /\ lastScreen' = PersistedScreen(user', currentScreen', "none")
  /\ AuthFresh
  /\ AnalyzeFresh /\ HistoryFresh
  /\ UNCHANGED <<mapVars, authPending, pendingSave, serverMeals>>

\* onChangeScreen(s) from the navigation
ChangeScreen(s) ==
  /\ user # Null /\ s # loggedScreen
  /\ currentScreen' = s
  /\ lastScreen' = PersistedScreen(user, s, lastScreen)
  /\ AnalyzeFresh /\ HistoryFresh
  /\ UNCHANGED <<mapVars, user, appMeals, session, authVars, pendingSave,
                 serverMeals>>

\* a rehydration that asks for the token alone
Rehydrates_TokenOnly(stored) == Truthy(getAuthToken(stored))

\* if (token && savedUser) in the rehydration effect
Rehydrates(stored) == Truthy(getAuthToken(stored)) /\ Truthy(getAuthUser(stored))

\* a reload of the page: App starts over and its rehydration effect and
\* its last-screen effect run
Reload ==
  /\ user' = IF Rehydrates(session) THEN getAuthUser(session) ELSE Null
  /\ currentScreen' =
       IF Rehydrates(session)
         THEN (IF lastScreen \in {"history", "analyze"} THEN lastScreen
               ELSE "analyze")
         ELSE "login"
  /\ appMeals' = <<>>
  /\ lastScreen' = PersistedScreen(user', currentScreen', lastScreen)
  /\ AuthFresh /\ authPending' = "none" /\ pendingSave' = Null
  /\ AnalyzeFresh /\ HistoryFresh
  /\ UNCHANGED <<mapVars, session, serverMeals>>

\* a test that does not ask for the file
SaveRefusal_NoFileTest(list, preview, photo) ==
  IF Len(list) = 0 \/ ~Truthy(preview)
    THEN "É necessário ter uma foto e ao menos um alimento."
  ELSE ""

\* the first lines of handleSaveMealClick: the message it sets before
\* returning, or "" when it goes on
SaveRefusal(list, preview, photo) ==
  IF Len(list) = 0 \/ ~Truthy(preview) \/ ~Truthy(photo)
    THEN "É necessário ter uma foto e ao menos um alimento."
  ELSE ""

\* handleSaveMealClick up to the await; the button is disabled without
\* items, without a preview and while saving
HandleSaveMealClick ==
  /\ AnalyzeRendered
  /\ Len(workingItems) > 0 /\ previewDataUrl # Null /\ ~saving
  /\ pendingSave = Null
  /\ Len(serverMeals[Today]) < MaxSaves
  /\ IF SaveRefusal(workingItems, previewDataUrl, file) # ""
       THEN /\ analyzeError' =
                 ErrorOf(SaveRefusal(workingItems, previewDataUrl, file))
            /\ UNCHANGED <<saving, pendingSave, backendMessage>>
       ELSE /\ saving' = TRUE
            /\ pendingSave' = previewDataUrl
            /\ analyzeError' = NoError
            /\ backendMessage' = ""
  /\ UNCHANGED <<mapVars, openedMeal, currentScreen, user, appMeals, session,
                 lastScreen, authVars, historyVars, file, reading,
                 previewDataUrl, workingItems, analyzing, addModalOpen,
                 foodQuery, selectedFood, modalGrams, clock>>

\* the MealApi the server stores and answers POST /meals with: the next
\* meal of the day
SavedReply == DayMeal(Len(serverMeals[Today]) + 1, 0)

\* the catch and finally blocks of handleSaveMealClick: they reach the
\* analyze screen that sent the request only while it is still rendered
\* (its saving flag is what is left of it)
SaveEndsWith(err) ==
  /\ analyzeError' = IF saving THEN err ELSE analyzeError
  /\ saving' = FALSE
  /\ UNCHANGED <<file, reading, previewDataUrl, workingItems, backendMessage,
                 analyzing, addModalOpen, foodQuery, selectedFood, modalGrams,
                 clock>>

\* handleSaveMealClick from the await on, the response being ok: the
\* mapping, then onSaveMeal(savedMeal), which is App's handleSaveMeal
SaveSucceeds ==
  /\ pendingSave # Null
  /\ pendingSave' = Null
  /\ serverMeals' = [serverMeals EXCEPT ![Today] = Append(@, SavedReply)]
  /\ LET mapped == SaveResponseToSavedMeal(SavedReply, pendingSave)
     IN IF mapped.st = "ok"
          THEN /\ appMeals' = handleSaveMeal(mapped.meal, appMeals)
               /\ currentScreen' = "history"
               /\ lastScreen' = PersistedScreen(user, "history", lastScreen)
               /\ IF RenderedScreen = "analyze"
                    THEN AnalyzeFresh /\ HistoryFresh /\ UNCHANGED authVars
                    ELSE /\ UNCHANGED <<openedMeal, mounted, meals, query,
                                        selectedDate, loading, error,
                                        pendingLoads, pendingDelete,
                                        analyzeVars, authPending>>
                         /\ IF RenderedScreen = "register"
                              THEN AuthFresh
                              ELSE UNCHANGED <<authLoading, authError>>
          ELSE /\ SaveEndsWith(ErrorOf(mapped.err))
               /\ UNCHANGED <<openedMeal, currentScreen, appMeals, lastScreen,
                              authVars, mounted, meals, query, selectedDate,
                              loading, error, pendingLoads, pendingDelete>>
  /\ UNCHANGED <<mapVars, user, session>>

\* handleSaveMealClick from the await on, the fetch rejected or the
\* response not ok; fetchAuth clears the session on 401
SaveFails(r) ==
  /\ pendingSave # Null
  /\ pendingSave' = Null
  /\ session' = fetchAuth(r, session)
  /\ SaveEndsWith(ErrorOf(ReplyMessage(r, "Erro ao salvar refeição.")))
  /\ UNCHANGED <<mapVars, openedMeal, currentScreen, user, appMeals,
                 lastScreen, authVars, historyVars>>

\* nothing in localStorage, the server holding no meal
AppInit ==
  /\ resp = DayMeal(1, 0)
  /\ histMeal = NotRun
  /\ saveMeal = NotRun
  /\ openedMeal = Null
  /\ AppStarts
  /\ HistoryStarts
  /\ serverMeals = [d \in Dates |-> <<>>]
  /\ AnalyzeStarts

AppNext ==
  \/ \E email \in Emails, password \in Passwords : SubmitLogin(email, password)
  \/ \E name \in Names, email \in Emails, password \in Passwords,
        confirmPassword \in Passwords :
          SubmitRegister(name, email, password, confirmPassword)
  \/ \E reply \in AuthReplies, throwsAt \in WriteFaults :
          AuthReplyArrives(reply, throwsAt)
  \/ GoToRegister
  \/ BackToLogin
  \/ handleLogout
  \/ \E s \in {"analyze", "history"} : ChangeScreen(s)
  \/ Reload
  \/ HandleFileChange
  \/ PreviewLoaded
  \/ HandleAnalyze
  \/ \E data \in AnalysisReplies : AnalyzeSucceeds(data)
  \/ HandleSaveMealClick
  \/ SaveSucceeds
  \/ \E r \in {Unauthorized, FetchRejected} : SaveFails(r)
  \/ HistoryMount
  \/ LoadSucceeds(Today)
  \/ LoadFails(Today, Unauthorized)

SpecApp == AppInit /\ [][AppNext]_vars

----------------------------------------------------------------------------
(* Where a saved meal goes *)

IdsOf(list) == [k \in 1..Len(list) |-> list[k].id]

\* the history view has loaded and shows neither a spinner nor an error
HistorySettled ==
  /\ HistoryRendered /\ mounted
  /\ PendingTotal = 0 /\ ~loading /\ ~error.set

\* C20 as stated: after a successful save the saved meal heads the
\* application's in-memory list, the screen is history, and the in-memory
\* list is the list the history view displays (here: the same meals in the
\* same order, once the view has settled).
HistoryDisplaysAppMeals == HistorySettled => IdsOf(meals) = IdsOf(appMeals)

\* a successful save puts the normalized meal at the head of the in-memory
\* list and switches to the history screen
SavePutsMealAtHead ==
  (SaveSucceeds /\ SaveResponseToSavedMeal(SavedReply, pendingSave).st = "ok")
    => /\ Len(appMeals') = Len(appMeals) + 1
       /\ appMeals'[1] = SaveResponseToSavedMeal(SavedReply, pendingSave).meal
       /\ SubSeq(appMeals', 2, Len(appMeals')) = appMeals
       /\ currentScreen' = "history"

\* the history's list is what its own load brought, mapped and sorted; a
\* save leaves it alone (or finds the screen not yet rendered, its list
\* empty)
HistoryShowsOwnLoads ==
  /\ (LoadSucceeds(Today) /\ MapMeals(serverMeals[Today]).st = "ok")
       => SortedFrom(meals', MapMeals(serverMeals[Today]).meal)
  /\ SaveSucceeds => (meals' = meals \/ meals' = <<>>)

\* C20, amended: after a successful save the normalized saved meal is put at
\* the head of the application's in-memory meal list and the screen switches
\* to history; the history view does not display that list but the list it
\* loads from the server for the selected date.
SavedMealHeadsListHistoryLoadsOwn ==
  [][SavePutsMealAtHead /\ HistoryShowsOwnLoads]_vars

\* two meals saved in a row: the in-memory list holds m2, m1 and the
\* settled history view shows m1, m2 as the server listed them
SavedMealWitness ==
  /\ HistorySettled
  /\ IdsOf(appMeals) = <<Str(<<"m","2">>), Str(<<"m","1">>)>>
  /\ appMeals[1].photoDataUrl = PreviewDataUrl
  /\ IdsOf(meals) = <<Str(<<"m","1">>), Str(<<"m","2">>)>>

----------------------------------------------------------------------------
(* The session: what localStorage holds and what the application shows *)

ServerError == [status |-> 500, text |-> "Internal Server Error"]

\* what a visit can find in localStorage: the keys written by an earlier
\* visit, missing, or holding text the application never wrote
StoredTokens == {Null, Str(<<>>), AccessToken}
StoredUsers ==
  {Null, JSONStringify(UserAna), Str(<<"{","a","n","a">>),
   Str(<<"n","u","l","l">>)}
StoredScreens == {"none", "analyze", "history", "login"}

\* the first render of a visit, before the effects run; the server holds
\* one meal for today
SessionInit ==
  /\ resp = DayMeal(1, 0)
  /\ histMeal = NotRun
  /\ saveMeal = NotRun
  /\ openedMeal = Null
  /\ currentScreen = "login"
  /\ user = Null
  /\ appMeals = <<>>
  /\ session \in [token : StoredTokens, user : StoredUsers]
  /\ lastScreen \in StoredScreens
  /\ AuthStarts
  /\ HistoryStarts
  /\ serverMeals = [d \in Dates |-> <<DayMeal(1, 0)>>]
  /\ AnalyzeStarts

SessionNext ==
  \/ Reload
  \/ \E email \in Emails, password \in Passwords : SubmitLogin(email, password)
  \/ \E name \in Names, email \in Emails, password \in Passwords,
        confirmPassword \in Passwords :
          SubmitRegister(name, email, password, confirmPassword)
  \/ \E reply \in AuthReplies, throwsAt \in WriteFaults :
          AuthReplyArrives(reply, throwsAt)
  \/ GoToRegister
  \/ BackToLogin
  \/ handleLogout
  \/ \E s \in {"analyze", "history"} : ChangeScreen(s)
  \/ HistoryMount
  \/ LoadSucceeds(Today)
  \/ \E r \in {Unauthorized, ServerError, FetchRejected} : LoadFails(Today, r)
  \/ OpenCard(1)
  \/ HandleDelete
  \/ \E r \in {Unauthorized, ServerError, FetchRejected} : DeleteFails(r)

SpecSession == SessionInit /\ [][SessionNext]_vars

----------------------------------------------------------------------------
(* fetchAuth and the stored session *)

\* a step in which a request made through fetchAuth comes back with r
FetchAuthAnswers(r) == LoadFails(Today, r) \/ DeleteFails(r)

FetchAuthClearsOn401Only ==
  /\ \A r \in {Unauthorized, ServerError, FetchRejected} :
       FetchAuthAnswers(r) =>
         IF r.status = 401
           THEN session'.token = Null /\ session'.user = Null
           ELSE session' = session
  /\ LoadSucceeds(Today) => session' = session

\* C21: whenever fetchAuth receives a response with status 401, the stored
\* access token and the stored user are both removed by the time the caller
\* has the response; for any other status (and for a fetch that rejects)
\* the stored session is left as it was.
UnauthorizedClearsSession == [][FetchAuthClearsOn401Only]_vars

\* a 401 has emptied the storage under a logged-in user, whose history
\* shows the failure
UnauthorizedWitness ==
  /\ user # Null /\ mounted /\ error.set
  /\ session = NoSession

----------------------------------------------------------------------------
(* Reloading the page *)

\* the storage holds a token
HoldsToken(stored) == stored.token.t = "str" /\ stored.token.s # <<>>

\* the storage holds text that parses to a user
HoldsUser(stored) ==
  /\ stored.user.t = "str"
  /\ ~JSONParse(stored.user.s).threw
  /\ JSONParse(stored.user.s).value.t = "object"

ReloadRehydrates ==
  Reload =>
    IF HoldsToken(session) /\ HoldsUser(session)
      THEN /\ user' = JSONParse(session.user.s).value
           /\ session.user = JSONStringify(UserAna) => user' = UserAna
           /\ currentScreen' = IF lastScreen \in {"analyze", "history"}
                                 THEN lastScreen ELSE "analyze"
           /\ loggedScreen' = currentScreen'
      ELSE /\ user' = Null
           /\ currentScreen' = "login"

\* C22: when the app starts with both a token and a parseable user in
\* storage, it enters the logged-in area with that user on the last
\* persisted logged screen (analyze or history, analyze when none is
\* persisted); when either is missing or the stored user does not parse to
\* a user, it stays on the login screen with no user.
ReloadRestoresSession == [][ReloadRehydrates]_vars

\* the history screen of the stored user, not yet loaded, as a reload
\* finds it when the last screen persisted is history
ReloadWitness ==
  /\ user = UserAna /\ currentScreen = "history" /\ ~mounted
  /\ session = setAuthSession(AccessToken, UserAna)
  /\ lastScreen = "history" /\ appMeals = <<>>

----------------------------------------------------------------------------
(* Deleting a meal *)

\* list without its i-th element
DropAt(list, i) == SubSeq(list, 1, i - 1) \o SubSeq(list, i + 1, Len(list))

DeleteRemovesOneAndCloses ==
  DeleteSucceeds =>
    /\ openedMeal' = Null
    /\ IF \E i \in 1..Len(meals) : meals[i].id = pendingDelete
         THEN \E i \in 1..Len(meals) :
                meals[i].id = pendingDelete /\ meals' = DropAt(meals, i)
         ELSE meals' = meals

FailedDeleteKeepsScreen ==
  \A r \in {Unauthorized, FetchRejected} :
    DeleteFails(r) =>
      /\ meals' = meals /\ openedMeal' = openedMeal
      /\ error'.set
      /\ UNCHANGED <<mounted, query, selectedDate, loading, pendingLoads>>

\* C23: when the DELETE request succeeds, exactly the meal with that id is
\* removed from the history's list and the detail modal is closed; when it
\* fails, the list and the open modal are unchanged and, of the screen's
\* state, only the error message is set.
DeleteRemovesExactlyThatMeal ==
  [][DeleteRemovesOneAndCloses /\ FailedDeleteKeepsScreen]_vars

\* the second of three meals was deleted: the server and the list hold the
\* first and the third, and the modal is closed
DeleteWitness ==
  /\ mounted /\ openedMeal = Null /\ pendingDelete = Null
  /\ IdsOf(serverMeals[Today]) = <<Str(<<"m","1">>), Str(<<"m","3">>)>>
  /\ Len(meals) = 2 /\ selectedDate = Today
  /\ \A i \in 1..2 : meals[i].id # Str(<<"m","2">>)

----------------------------------------------------------------------------
(* What is rendered, and for whom *)

\* C24: in every reachable state the rendered screen is guarded by
\* authentication: with no user the app renders only login or register, and
\* with a user it renders only analyze or history, whatever value
\* currentScreen holds.
ScreenGuardedByAuth ==
  /\ user = Null => RenderedScreen \in {"login", "register"}
  /\ user # Null => RenderedScreen \in {"analyze", "history"}

\* a save answered after the logout has set currentScreen to history with
\* no user: the login screen is what is rendered
GuardWitness ==
  /\ user = Null /\ currentScreen = "history"
  /\ RenderedScreen = "login"


\* C25: in every reachable state where the app renders the logged-in area
\* (analyze or history), an auth token is present in storage.
LoggedAreaHasToken ==
  RenderedScreen \in {"analyze", "history"} => HoldsToken(session)

----------------------------------------------------------------------------
(* Logging out *)

LogoutClearsEverything ==
  handleLogout =>
    /\ session'.token = Null /\ session'.user = Null
    /\ lastScreen' = "none"
    /\ user' = Null
    /\ appMeals' = <<>>
    /\ currentScreen' = "login" /\ RenderedScreen' = "login"

\* a reload that finds what the logout left in storage
ReloadStaysLoggedOut ==
  (Reload /\ session = NoSession /\ lastScreen = "none") =>
    /\ user' = Null
    /\ RenderedScreen' = "login"
    /\ lastScreen' = "none"

\* with no user, the persistence effect writes nothing
NoUserNoPersistence ==
  user' = Null => lastScreen' \in {lastScreen, "none"}

\* C26: after logout the stored token, the stored user and the persisted
\* last screen are all absent, the in-memory user is null, the in-memory
\* meal list is empty and the screen is login; a reload right after logout
\* stays on the login screen, and the last-screen key is not rewritten by
\* the persistence effect.
LogoutLeavesNothing ==
  [][LogoutClearsEverything /\ ReloadStaysLoggedOut /\ NoUserNoPersistence]_vars

\* logged out after a meal was saved: the server still holds the meal,
\* the storage and the memory hold nothing
LogoutWitness ==
  /\ Len(serverMeals[Today]) > 0
  /\ user = Null /\ appMeals = <<>> /\ currentScreen = "login"
  /\ session = NoSession /\ lastScreen = "none"

----------------------------------------------------------------------------
(* Loads that overlap *)

\* C27: when the selected date changes while earlier history loads are
\* still in flight, once all loads have completed the displayed meal list
\* is the response for the currently selected date (a late response for a
\* previously selected date never overwrites it), and the loading flag is
\* true as long as any load is in flight.
LateLoadNeverOverwrites ==
  /\ (mounted /\ PendingTotal = 0 /\ selectedDate \in Dates /\ ~error.set
      /\ MapMeals(serverMeals[selectedDate]).st = "ok")
       => SortedFrom(meals, MapMeals(serverMeals[selectedDate]).meal)
  /\ (mounted /\ PendingTotal > 0) => loading

----------------------------------------------------------------------------
(* How a load ends *)

LoadEndsAsClaimed(d) ==
  /\ (LoadSucceeds(d) \/ LoadFails(d, FetchRejected)) => ~loading'
  /\ (LoadFails(d, FetchRejected)
      \/ (LoadSucceeds(d) /\ MapMeals(serverMeals[d]).st # "ok"))
       => meals' = <<>> /\ error'.set
  /\ (LoadSucceeds(d) /\ MapMeals(serverMeals[d]).st = "ok")
       => /\ ~error'.set
          /\ SortedFrom(meals', MapMeals(serverMeals[d]).meal)

\* C28: every history load ends with the loading flag false; when the load
\* fails (network error, non-ok response or a record that cannot be mapped)
\* the meal list becomes empty and an error message is set, and when it
\* succeeds the error is null and the list is the mapped response.
EveryLoadEndsClean == [][\A d \in Dates : LoadEndsAsClaimed(d)]_vars

----------------------------------------------------------------------------
(* Saving: what is sent, and what a failure leaves *)

\* a step that sends POST /meals
SaveRequestSent == pendingSave = Null /\ pendingSave' # Null

SaveSentOnlyWhenComplete ==
  SaveRequestSent =>
    Len(workingItems) >= 1 /\ file # Null /\ previewDataUrl # Null

\* the handler sends nothing and sets an error exactly when an item, the
\* preview or the file is missing, whatever it is called with
SaveRefusedWhenIncomplete ==
  \A list \in {<<>>, workingItems} :
    \A preview \in {Null, previewDataUrl, PreviewDataUrl} :
      \A photo \in {Null, file, PhotoFile} :
        (SaveRefusal(list, preview, photo) # "")
          <=> (Len(list) = 0 \/ preview = Null \/ photo = Null)

FailedSaveKeepsList ==
  \A r \in {Unauthorized, FetchRejected} :
    SaveFails(r) =>
      /\ appMeals' = appMeals /\ currentScreen' = currentScreen
      /\ workingItems' = workingItems
      /\ ~saving'

----------------------------------------------------------------------------
(* Logging in and registering *)

\* the reply is an ok JSON response whose body is an auth response
Accepted(reply) ==
  /\ reply.status = 200 /\ reply.json
  /\ reply.data.accessToken = AccessToken /\ reply.data.user = UserAna

StoredBeforeSeen ==
  \A reply \in AuthReplies : \A throwsAt \in WriteFaults :
    AuthReplyArrives(reply, throwsAt) =>
      /\ user' # Null =>
           /\ Accepted(reply)
           /\ HoldsToken(session') /\ session'.token = reply.data.accessToken
           /\ HoldsUser(session') /\ getAuthUser(session') = user'
      /\ ~Accepted(reply) =>
           /\ session' = session /\ user' = Null
           /\ ~authLoading'

RejectedInputWritesNothing ==
  /\ \A email \in Emails, password \in Passwords :
       (SubmitLogin(email, password)
        /\ (Trim(email) = <<>> \/ Trim(password) = <<>>))
         => /\ session' = session /\ user' = Null
            /\ ~authLoading' /\ authPending' = "none" /\ authError'.set
  /\ \A name \in Names, email \in Emails, password \in Passwords,
        confirmPassword \in Passwords :
       (SubmitRegister(name, email, password, confirmPassword)
        /\ (Trim(name) = <<>> \/ Trim(email) = <<>> \/ Len(password) < 6
            \/ password # confirmPassword))
         => /\ session' = session /\ user' = Null
            /\ ~authLoading' /\ authPending' = "none" /\ authError'.set

\* C30: login and registration store the session before the app sees the
\* user (the token and user are written to storage before onLogin or
\* onRegister is called), and when the request fails, is rejected by input
\* validation, or returns a body that is not a valid auth response, nothing
\* is written to storage, the in-memory user stays null and the loading
\* flag returns to false.
SessionStoredBeforeLogin ==
  [][StoredBeforeSeen /\ RejectedInputWritesNothing]_vars

\* a first login: the storage that held nothing holds the token and the
\* user the application now shows the analyze screen to
LoginWitness ==
  /\ user = UserAna /\ RenderedScreen = "analyze"
  /\ session = setAuthSession(AccessToken, UserAna)
  /\ ~authLoading /\ authPending = "none"
  /\ Len(serverMeals[Today]) = 0 /\ appMeals = <<>>

====
